---- MODULE Spec2Model ----
(***************************************************************************)
(* The belief-state machine of anxious-intelligence: the belief store and  *)
(* its update primitives (belief-graph.ts), the tension accumulator        *)
(* (tension-accumulator.ts), the revision engine (revision-engine.ts) and  *)
(* the per-session lock of the orchestrator (orchestrator.ts).             *)
(*                                                                         *)
(* Numbers of the interval [0,1] (confidence, tension, importance,         *)
(* strength) are kept in hundredths: ONE stands for 1.0.                   *)
(* A belief id is its position in the table; NoBelief stands for null.     *)
(* A text is a sequence of words; String.includes is Includes.             *)
(***************************************************************************)
EXTENDS Integers, Sequences, FiniteSets, TLC

\* ---------------------------------------------------------------- constants
ONE == 100
REVISION_THRESHOLD == 70
CONFIDENCE_INCREMENT == 10
TENSION_INCREMENT == 15
CASCADE_DEPTH_LIMIT == 3
NoBelief == 0

\* ------------------------------------------------------------------- bounds
\* Turns whose deferred work (accumulate, then reviseAllTriggered) may run at
\* the same time.
NumWorkers == 2
\* Evidence items of the turn whose revisions are followed to their end.
MaxEvidence == 1
\* Evidence items of each of the turns that accumulate at the same time.
MaxStoreEvidence == 2
\* cascade_updates entries of one revision result.
MaxCascade == 1
\* Items discoverConnections returns.
MaxDiscovered == 1
\* Rows of the belief table (seeds and successors).
MaxBeliefs == 12
\* Calls of processInteraction over a run.
MaxInteractions == 4
\* Calls of the connections endpoint over a run.
MaxConnectCalls == 3
\* Evidence items of the batch whose accumulation is followed item by item.
MaxAccEvidence == 2
\* Calls of the tension and reinforce endpoints over a run.
MaxStoreCalls == 2
\* entries of the array the evidence extraction collaborator answers with
MaxRawItems == 2
\* Evidence items of the batch that may name the same belief twice.
MaxRepeatEvidence == 2

\* ------------------------------------------------------------------ helpers
Min(a, b) == IF a <= b THEN a ELSE b

Max(a, b) == IF a >= b THEN a ELSE b

Last(s) == s[Len(s)]

Front(s) == SubSeq(s, 1, Len(s) - 1)

Range(s) == {s[i] : i \in 1..Len(s)}

\* The sequences over S of length at most n.
SeqsUpTo(S, n) == UNION {[1..m -> S] : m \in 0..n}

\* The orderings of a finite set (a query without ORDER BY fixes none).
Perms(S) == {p \in [1..Cardinality(S) -> S] : Range(p) = S}

\* text.includes(pat)
Includes(text, pat) ==
    \E i \in 0..(Len(text) - Len(pat)) : SubSeq(text, i + 1, i + Len(pat)) = pat

\* ------------------------------------------------------- belief store (rows)
Ids(bs) == 1..Len(bs)

\* INSERT INTO beliefs ... RETURNING *: tension 0, active, superseded_by null.
createBelief(bs, content, domain, confidence, importance) ==
    Append(bs, [id |-> Len(bs) + 1, content |-> content, domain |-> domain,
                confidence |-> confidence, tension |-> 0,
                reinforcement_count |-> 0, importance |-> importance,
                is_active |-> TRUE, superseded_by |-> NoBelief])

\* SELECT * FROM beliefs WHERE id = $1 (NoBelief when there is no such row).
HasBelief(bs, id) == id \in Ids(bs)

\* LEAST(1.0, confidence + (1.0 - confidence) * $2)
ConfidenceAfter(c) == Min(ONE, c + ((ONE - c) * CONFIDENCE_INCREMENT) \div ONE)

\* A variant of addTension's UPDATE that writes the delta over the row's
\* tension (SET tension = LEAST(1.0, $2)); AccumulatedExactly does not hold of it.
TensionOverwritten(t, delta) == Min(ONE, delta)

\* parseFloat of a text that does not begin with a number, and what arithmetic
\* makes of it. FLOAT columns store it; the store orders it above every number.
NaN == 1000000

\* LEAST(1.0, tension + $2)
TensionAfter(t, delta) == IF delta = NaN THEN ONE ELSE Min(ONE, t + delta)

\* variant: the UPDATE also touches a row that is not active
UpdatableInactive(bs, id) == HasBelief(bs, id)

\* WHERE id = $1 AND is_active = true: the row an UPDATE of reinforceBelief or
\* addTension touches.
Updatable(bs, id) == HasBelief(bs, id) /\ bs[id].is_active

\* UPDATE beliefs SET confidence = ..., reinforcement_count = ... + 1
reinforceBelief(bs, id) ==
    IF Updatable(bs, id)
    THEN [bs EXCEPT ![id].confidence = ConfidenceAfter(@),
                    ![id].reinforcement_count = @ + 1]
    ELSE bs

\* variant: the table has no CHECK on tension
TensionUnchecked(bs, id, delta) == FALSE

\* CHECK (confidence >= 0 AND confidence <= 1): the INSERT of createBelief is
\* refused (the query throws) when the value is outside the interval.
ConfidenceCheckFails(c) == c = NaN \/ c < 0 \/ c > ONE

\* CHECK (tension >= 0 AND tension <= 1): the UPDATE of addTension is refused
\* (the query throws) when the new value leaves the interval.
TensionCheckFails(bs, id, delta) ==
    Updatable(bs, id) /\ TensionAfter(bs[id].tension, delta) < 0

\* UPDATE beliefs SET tension = LEAST(1.0, tension + $2) WHERE id = $1 AND
\* is_active = true
addTension(bs, id, delta) ==
    IF Updatable(bs, id) /\ ~TensionCheckFails(bs, id, delta)
    THEN [bs EXCEPT ![id].tension = TensionAfter(@, delta)]
    ELSE bs

\* A variant of supersedeBelief that leaves superseded_by as it was;
\* InactiveHasSuccessor does not hold of it.
supersedeWithoutSuccessor(bs, oldId, newId) ==
    IF HasBelief(bs, oldId) THEN [bs EXCEPT ![oldId].is_active = FALSE] ELSE bs

\* variant: the UPDATE is restricted to rows that are still active, so the
\* first of two supersessions of a row is the one that stays
supersedeIfActive(bs, oldId, newId) ==
    IF HasBelief(bs, oldId) /\ bs[oldId].is_active
    THEN [bs EXCEPT ![oldId].is_active = FALSE, ![oldId].superseded_by = newId]
    ELSE bs

\* UPDATE beliefs SET is_active = false, superseded_by = $2 WHERE id = $1
supersedeBelief(bs, oldId, newId) ==
    IF HasBelief(bs, oldId)
    THEN [bs EXCEPT ![oldId].is_active = FALSE, ![oldId].superseded_by = newId]
    ELSE bs

\* SELECT * FROM beliefs WHERE is_active = true ORDER BY importance DESC
\* (rows of equal importance in id order).
RECURSIVE SortByImportance(_, _)
SortByImportance(bs, S) ==
    IF S = {} THEN <<>>
    ELSE LET top == CHOOSE i \in S : \A j \in S :
                        \/ bs[i].importance > bs[j].importance
                        \/ (bs[i].importance = bs[j].importance /\ i <= j)
         IN <<bs[top]>> \o SortByImportance(bs, S \ {top})

getActiveBeliefs(bs) == SortByImportance(bs, {i \in Ids(bs) : bs[i].is_active})

\* ------------------------------------------------------- connection index
\* The table belief_connections: a function from the key (belief_a, belief_b)
\* to the row's other columns.
NoReasoning == "null"

ConnRow(strength, relation, method, reasoning) ==
    [strength |-> strength, relation |-> relation,
     discovery_method |-> method, discovery_reasoning |-> reasoning]

\* variant: the relation of the latest call always replaces the stored one
MergeConnLatestRelation(old, strength, relation, method, reasoning) ==
    [strength |-> Max(old.strength, strength),
     relation |-> relation,
     discovery_method |-> IF old.discovery_method = "seed" /\ method # "seed"
                          THEN method ELSE old.discovery_method,
     discovery_reasoning |-> IF reasoning # NoReasoning THEN reasoning
                             ELSE old.discovery_reasoning]

\* variant: the method of the latest call always replaces the stored one
MergeConnLatestMethod(old, strength, relation, method, reasoning) ==
    [strength |-> Max(old.strength, strength),
     relation |-> IF strength > old.strength THEN relation ELSE old.relation,
     discovery_method |-> method,
     discovery_reasoning |-> IF reasoning # NoReasoning THEN reasoning
                             ELSE old.discovery_reasoning]

\* ON CONFLICT (belief_a, belief_b) DO UPDATE SET ...
MergeConn(old, strength, relation, method, reasoning) ==
    [strength |-> Max(old.strength, strength),
     relation |-> IF strength > old.strength THEN relation ELSE old.relation,
     discovery_method |->
        IF old.discovery_method = "seed" /\ method # "seed"
        THEN method ELSE old.discovery_method,
     discovery_reasoning |->
        IF reasoning # NoReasoning THEN reasoning ELSE old.discovery_reasoning]

\* INSERT INTO belief_connections ... ON CONFLICT ... DO UPDATE
connectBeliefs(cs, a, b, relation, strength, method, reasoning) ==
    IF <<a, b>> \in DOMAIN cs
    THEN [cs EXCEPT ![<<a, b>>] = MergeConn(@, strength, relation, method, reasoning)]
    ELSE [k \in (DOMAIN cs) \cup {<<a, b>>} |->
            IF k = <<a, b>> THEN ConnRow(strength, relation, method, reasoning)
            ELSE cs[k]]

\* getConnectedBeliefs(id, 1): one row per (belief, connection) pair of the
\* join; the beliefs of these rows.
ConnectedIds(bs, cs, id) ==
    {b \in Ids(bs) :
        /\ b # id
        /\ bs[b].is_active
        /\ \E k \in DOMAIN cs : (k[1] = id \/ k[2] = id) /\ (k[1] = b \/ k[2] = b)}


\* --------------------------------------------------------------- the state
VARIABLES
    beliefs,        \* table beliefs: a sequence of rows, id = position
    connections,    \* table belief_connections: (belief_a, belief_b) -> row
    ledger,         \* table contradiction_log: a sequence, oldest first
    revisions,      \* table revisions: a sequence, oldest first
    job,            \* per worker: the deferred work of one turn
    stack,          \* per worker: the chain of nested reviseBelief calls, outermost first
    hist,           \* per belief: what was asked of its row (history, read by no action)
    called,         \* per worker: how its latest callRevision ended (history)
    interactions,   \* the calls of processInteraction, in the order they were made
    sessionLocks,   \* orchestrator.ts sessionLocks: session -> the promise stored for it
    userRequestActive,  \* orchestrator.ts _userRequestActive
    promiseCount,   \* promise objects created by withSessionLock so far
    turn,           \* the call of _processInteraction that is followed step by step
    connectLog,     \* the calls of the connections endpoint, oldest first (history)
    reply           \* the latest call of a store function made from outside and its outcome

storeVars == <<beliefs, connections, ledger, revisions>>

lockVars == <<interactions, sessionLocks, userRequestActive, promiseCount>>

vars == <<beliefs, connections, ledger, revisions, job, stack, hist, called,
          interactions, sessionLocks, userRequestActive, promiseCount,
          turn, connectLog, reply>>

Workers == 1..NumWorkers

Sessions == {"default", "web", "autonomous"}

\* ------------------------------------------------------------ initial store
\* The first three of SEED_BELIEFS with the seed connections among them, after
\* earlier turns have accumulated tension on them.
SeedRows ==
    << [content |-> <<"accurate">>, domain |-> "self", confidence |-> 70,
        importance |-> 90, tension |-> 60],
       [content |-> <<"context">>, domain |-> "self", confidence |-> 60,
        importance |-> 70, tension |-> 60],
       [content |-> <<"helpful">>, domain |-> "self", confidence |-> 60,
        importance |-> 80, tension |-> 45] >>

RECURSIVE SeedTable(_)
SeedTable(n) ==
    IF n = 0 THEN <<>>
    ELSE LET bs == createBelief(SeedTable(n - 1), SeedRows[n].content,
                                SeedRows[n].domain, SeedRows[n].confidence,
                                SeedRows[n].importance)
         IN [bs EXCEPT ![n].tension = SeedRows[n].tension]

EmptyConnections == [k \in {} |-> ConnRow(0, "supports", "seed", NoReasoning)]

\* connectBeliefs(beliefs[0].id, beliefs[2].id, "supports", 0.7)
\* connectBeliefs(beliefs[1].id, beliefs[0].id, "supports", 0.6)
SeedConnections ==
    connectBeliefs(
        connectBeliefs(EmptyConnections, 1, 3, "supports", 70, "seed", NoReasoning),
        2, 1, "supports", 60, "seed", NoReasoning)

\* The history of a row: the tension it started with, the sum of the deltas
\* addTension applied to it, the workers that applied them, how many
\* reinforceBelief calls reached it, the successors supersedeBelief was given
\* for it, in the order of the calls, and how many reviseBelief calls on it
\* returned status revised.
NewHist(t) ==
    [t0 |-> t, applied |-> 0, callers |-> {}, reinforced |-> 0, successors |-> <<>>,
     revisedReturns |-> 0]

\* The deferred work of a turn: where it stands, the evidence and the index of
\* accumulate's loop, the triggered beliefs and the index and results of
\* reviseAllTriggered's loop.
IdleJob ==
    [pc |-> "idle", ev |-> <<>>, i |-> 1, triggered |-> <<>>, k |-> 1, results |-> <<>>]

\* The deferred work is over: reviseAllTriggered returned `results`.
DoneJob(results) == [IdleJob EXCEPT !.pc = "done", !.results = results]

\* The deferred work is over: its try/catch caught an exception and logged it.
FailedJob == [IdleJob EXCEPT !.pc = "threw"]

\* no store function has been called from outside
NoReply == [op |-> "none", n |-> 0]

\* What the evidence extraction of a turn ended with: nothing yet.
NoOutput == [kind |-> "none", items |-> <<>>]

\* The turn followed: where _processInteraction stands, its local
\* dissatisfaction (a fraction <<numerator, denominator>> of hundredths),
\* activeBeliefs, urgent and preRevisions, whether the pre-revision was
\* started and whether its timeout fired, what the evidence extraction ended
\* with, and the dissatisfaction of the value it returned.
NoTurn == [pc |-> "none", dissatisfaction |-> <<0, 1>>, activeBeliefs |-> <<>>,
           urgent |-> <<>>, eager |-> FALSE,
           timedOut |-> FALSE, preRevisions |-> <<>>, extraction |-> NoOutput,
           returned |-> <<0, 1>>]

Init ==
    /\ beliefs = SeedTable(Len(SeedRows))
    /\ connections = SeedConnections
    /\ ledger = <<>>
    /\ revisions = <<>>
    /\ job = [w \in Workers |-> IdleJob]
    /\ stack = [w \in Workers |-> <<>>]
    /\ hist = [i \in 1..Len(SeedRows) |-> NewHist(SeedRows[i].tension)]
    /\ called = [w \in Workers |-> "none"]
    /\ interactions = <<>>
    /\ sessionLocks = [s \in Sessions |-> [of |-> 0, promise |-> 0]]
    /\ userRequestActive = FALSE
    /\ promiseCount = 0
    /\ turn = NoTurn
    /\ connectLog = <<>>
    /\ reply = NoReply

\* ------------------------------------------------------ tension accumulator
\* const delta = TENSION_INCREMENT * ev.strength
EvidenceDelta(ev) ==
    IF ev.strength = NaN THEN NaN ELSE (TENSION_INCREMENT * ev.strength) \div ONE

\* if (!ev.belief_id || ev.stance === "neutral") continue
Skipped(ev) == ev.belief_id = NoBelief \/ ev.stance = "neutral"

\* variant: the comparison with the threshold is strict
TriggeredStrictly(bs, id, updated) == updated /\ bs[id].tension > REVISION_THRESHOLD

\* if (updated && updated.tension >= REVISION_THRESHOLD)
Triggered(bs, id, updated) == updated /\ bs[id].tension >= REVISION_THRESHOLD

\* The history after addTension(id, delta) was issued by `who`.
HistAfterTension(h, bs, id, delta, who) ==
    IF Updatable(bs, id) /\ ~TensionCheckFails(bs, id, delta)
    THEN [h EXCEPT ![id].applied = IF delta = NaN \/ @ = NaN THEN NaN ELSE @ + delta,
                   ![id].callers = @ \cup {who}]
    ELSE h

\* The history after supersedeBelief(oldId, newId) was issued.
HistAfterSupersede(h, bs, oldId, newId) ==
    IF HasBelief(bs, oldId) THEN [h EXCEPT ![oldId].successors = Append(@, newId)] ELSE h

HistAfterReinforce(h, bs, id) ==
    IF Updatable(bs, id) THEN [h EXCEPT ![id].reinforced = @ + 1] ELSE h

\* The deferred work of a turn begins with the evidence extractEvidence gave:
\* setImmediate(async () => { const triggered = await accumulate(evidence, ...) ... }).
\* Each worker stands for one turn.
StartJob(w, EvidenceLists) ==
    /\ job[w] = IdleJob
    /\ stack[w] = <<>>
    /\ \E ev \in EvidenceLists :
          job' = [job EXCEPT ![w] = [IdleJob EXCEPT !.pc = "accumulate", !.ev = ev]]
    /\ UNCHANGED <<storeVars, stack, hist, called, lockVars, turn, connectLog, reply>>

\* One pass of the loop of accumulate: reinforceBelief, or addTension and
\* logContradiction (an addTension the CHECK refuses throws, and the deferred
\* work's try/catch logs it). After the last item reviseAllTriggered is called when
\* triggered.length is not 0.
Accumulate(w) ==
    /\ job[w].pc = "accumulate"
    /\ LET j == job[w]
       IN IF j.i > Len(j.ev)
          THEN /\ job' = [job EXCEPT ![w] =
                            IF j.triggered = <<>> THEN DoneJob(<<>>)
                            ELSE [j EXCEPT !.pc = "reviseAll"]]
               /\ UNCHANGED <<storeVars, hist>>
          ELSE LET ev == j.ev[j.i]
                   id == ev.belief_id
                   delta == EvidenceDelta(ev)
               IN IF Skipped(ev)
                  THEN /\ job' = [job EXCEPT ![w].i = @ + 1]
                       /\ UNCHANGED <<storeVars, hist>>
                  ELSE IF ev.stance = "reinforcing"
                  THEN /\ beliefs' = reinforceBelief(beliefs, id)
                       /\ hist' = HistAfterReinforce(hist, beliefs, id)
                       /\ job' = [job EXCEPT ![w].i = @ + 1]
                       /\ UNCHANGED <<connections, ledger, revisions>>
                  ELSE IF TensionCheckFails(beliefs, id, delta)
                  THEN /\ job' = [job EXCEPT ![w] = FailedJob]
                       /\ UNCHANGED <<storeVars, hist>>
                  ELSE /\ beliefs' = addTension(beliefs, id, delta)
                       /\ hist' = HistAfterTension(hist, beliefs, id, delta, w)
                       /\ ledger' = Append(ledger, [belief_id |-> id, tension_delta |-> delta])
                       /\ job' = [job EXCEPT
                                    ![w].i = @ + 1,
                                    ![w].triggered =
                                        IF Triggered(beliefs', id, Updatable(beliefs, id))
                                        THEN Append(@, beliefs'[id]) ELSE @]
                       /\ UNCHANGED <<connections, revisions>>
    /\ UNCHANGED <<stack, called, lockVars, turn, connectLog, reply>>

\* ---------------------------------------------------------- revision engine
\* A field the collaborator's JSON leaves out (undefined).
Missing == <<"undefined">>

\* What `await callRevision(...)` can produce. kind "throw": the call throws
\* (transport error, timeout, JSON.parse of text that is not JSON). The other
\* kinds are what JSON.parse returns: null, an empty object, an array, or an
\* object with the fields of the revision prompt.
NoResult ==
    [kind |-> "none", revised_belief |-> Missing, confidence |-> 50,
     cascade_updates |-> <<>>, new_connections |-> <<>>]

ResultOfKind(kind) == [NoResult EXCEPT !.kind = kind]

\* cascade_updates entries: `belief` (a text, or left out) and
\* `new_tension_delta` (any number; 10 is also what a left-out field gives).
CascadeEntries ==
    [belief : {Missing, <<"context">>}, new_tension_delta : {-20, 10, ONE}]

\* An object with the fields of the revision prompt.
ObjectResult(revised, confidence, cascade, suggested) ==
    [kind |-> "object", revised_belief |-> revised, confidence |-> confidence,
     cascade_updates |-> cascade, new_connections |-> suggested]

\* The results the engine is run against: every kind of value, objects with
\* up to MaxCascade cascade entries, and an object with a new text and a
\* suggested connection.
RevisionResults ==
    {ResultOfKind(k) : k \in {"throw", "null", "empty_object", "array"}}
    \cup {ObjectResult(Missing, 150, c, <<>>) : c \in SeqsUpTo(CascadeEntries, MaxCascade)}
    \cup {ObjectResult(<<"accurate", "context">>, 80, <<>>,
                       <<[to_belief |-> <<"helpful">>, relation |-> "contradicts"]>>)}

\* What discoverConnections returns: items that name another active belief by
\* its index, in the collaborator's order ([] when its call fails).
DiscoveredItems(others) ==
    [belief_id : {others[i].id : i \in 1..Len(others)},
     relation : {"tension_shares"}, strength : {80}]

\* result.revised_belief ?? belief.content
RevisedText(result, belief) ==
    IF result.revised_belief = Missing THEN belief.content ELSE result.revised_belief

\* variant: the result's confidence is ignored and the column default is stored
ConfidenceIgnored(x) == 50

\* Math.min(1, Math.max(0, parseFloat(result.confidence ?? "0.5")))
ClampUnit(x) == IF x = NaN THEN NaN ELSE Min(ONE, Max(0, x))

\* ci.belief ?? "" and nc.to_belief ?? ""
TextOrEmpty(t) == IF t = Missing THEN <<>> ELSE t

\* A variant of the depth check that lets depth CASCADE_DEPTH_LIMIT through;
\* CascadeLimitNoWrites does not hold of it.
DepthExceededLate(depth) == depth > CASCADE_DEPTH_LIMIT

\* A variant of the recursive call that passes its own depth on;
\* DepthBounded does not hold of it.
SameDepth(depth) == depth

\* A variant of the try block that catches nothing; ErrorLeavesBelief does not
\* hold of it.
CallRevisionNeverThrows(result) == FALSE

\* if (depth >= CASCADE_DEPTH_LIMIT)
DepthExceeded(depth) == depth >= CASCADE_DEPTH_LIMIT

\* reviseBelief(updated, depth + 1)
ChildDepth(depth) == depth + 1

\* try { result = await callRevision(...) } catch (e) { return { status: "error" } }
CallRevisionThrows(result) == result.kind = "throw"

\* result.revised_belief on null: a TypeError outside the try block.
FieldAccessThrows(result) == result.kind = "null"

\* conn.tension >= REVISION_THRESHOLD * 0.8
NearThreshold(t) == 10 * t >= REVISION_THRESHOLD * 8

\* variant: only is_active is looked at before a belief is revised
RevisableWhenActive(bs, id) == HasBelief(bs, id) /\ bs[id].is_active

\* variant: only the tension is looked at before a belief is revised
RevisableWhenTense(bs, id) == HasBelief(bs, id) /\ bs[id].tension >= REVISION_THRESHOLD

\* current?.is_active && current.tension >= REVISION_THRESHOLD
Revisable(bs, id) ==
    HasBelief(bs, id) /\ bs[id].is_active /\ bs[id].tension >= REVISION_THRESHOLD

\* One call of reviseBelief(belief, depth): its arguments, where it stands and
\* its locals.
NewFrame(belief, depth) ==
    [belief |-> belief, depth |-> depth, pc |-> "enter",
     storedConnected |-> <<>>, allBeliefs |-> <<>>, discovered |-> <<>>, di |-> 1,
     newlyConnected |-> <<>>, result |-> NoResult, newId |-> NoBelief,
     allConnected |-> <<>>, cascadedIds |-> <<>>, ci |-> 1, ri |-> 1,
     cascades |-> <<>>]

Top(w) == Last(stack[w])

SetTop(w, f) == [stack EXCEPT ![w] = Front(@) \o <<f>>]

\* new Map(): set(b.id, b) keeps the place of a key already present and
\* replaces its value.
MapSet(m, b) ==
    IF \E i \in 1..Len(m) : m[i].id = b.id
    THEN [i \in 1..Len(m) |-> IF m[i].id = b.id THEN b ELSE m[i]]
    ELSE Append(m, b)

RECURSIVE MapSetAll(_, _)
MapSetAll(m, bs) ==
    IF bs = <<>> THEN m ELSE MapSetAll(MapSet(m, Head(bs)), Tail(bs))

\* for (const b of storedConnected) ...; for (const b of newlyConnected) ...
AllConnected(f) == MapSetAll(MapSetAll(<<>>, f.storedConnected), f.newlyConnected)

\* variant: only the first entry of allConnected is given a connection
TransferFirstOnly(cs, newId, conns) ==
    IF conns = <<>> THEN cs
    ELSE connectBeliefs(cs, newId, Head(conns).id, "supports", 50, "seed", NoReasoning)

\* for (const conn of allConnected.values())
\*   await connectBeliefs(newBelief.id, conn.id, "supports", 0.5)
RECURSIVE TransferConnections(_, _, _)
TransferConnections(cs, newId, conns) ==
    IF conns = <<>> THEN cs
    ELSE TransferConnections(
            connectBeliefs(cs, newId, Head(conns).id, "supports", 50, "seed", NoReasoning),
            newId, Tail(conns))

ValidRelations == {"supports", "contradicts", "depends_on", "generalizes", "tension_shares"}

\* The first belief of allBeliefs whose content includes nc.to_belief or is
\* included in it (0 when there is none).
FirstMatch(bs, text) ==
    LET hits == {i \in 1..Len(bs) : Includes(bs[i].content, text) \/ Includes(text, bs[i].content)}
    IN IF hits = {} THEN 0 ELSE CHOOSE i \in hits : \A j \in hits : i <= j

\* for (const nc of result.new_connections ?? []) ...
RECURSIVE SuggestedConnections(_, _, _, _)
SuggestedConnections(cs, newId, ncs, all) ==
    IF ncs = <<>> THEN cs
    ELSE LET m == FirstMatch(all, TextOrEmpty(Head(ncs).to_belief))
             next == IF m # 0 /\ Head(ncs).relation \in ValidRelations
                     THEN connectBeliefs(cs, newId, all[m].id, Head(ncs).relation, 50,
                                         "seed", NoReasoning)
                     ELSE cs
         IN SuggestedConnections(next, newId, Tail(ncs), all)

\* The first connected belief whose content includes ci.belief (0 when none).
CascadeTarget(conns, entry) ==
    LET hits == {i \in 1..Len(conns) : Includes(conns[i].content, TextOrEmpty(entry.belief))}
    IN IF hits = {} THEN 0 ELSE CHOOSE i \in hits : \A j \in hits : i <= j

\* The least element of a non-empty set of numbers.
Least(S) == CHOOSE i \in S : \A j \in S : i <= j

\* The two cascade loops run on without suspending until their next await:
\* the addTension of a cascade_updates entry that resolves to a connected
\* belief, the getBelief of a connected belief that was not cascaded and whose
\* remembered tension is near the threshold, or the final return.
Advance(f) ==
    LET cs == {i \in 1..Len(f.result.cascade_updates) :
                  i >= f.ci /\ CascadeTarget(f.allConnected, f.result.cascade_updates[i]) # 0}
        from == IF f.pc = "cascade" THEN 1 ELSE f.ri
        rs == {i \in 1..Len(f.allConnected) :
                  /\ i >= from
                  /\ f.allConnected[i].id \notin Range(f.cascadedIds)
                  /\ NearThreshold(f.allConnected[i].tension)}
    IN IF f.pc = "cascade" /\ cs # {} THEN [f EXCEPT !.ci = Least(cs)]
       ELSE IF rs # {} THEN [f EXCEPT !.pc = "rescan", !.ri = Least(rs)]
       ELSE [f EXCEPT !.pc = "return"]

\* The loop of reviseAllTriggered after the belief at k was dealt with:
\* results.push(result), or `continue` (status "skipped") when the belief was
\* not revisable any more.
JobAfterBelief(j, status) ==
    LET results == IF status = "skipped" THEN j.results ELSE Append(j.results, status)
    IN IF j.k + 1 > Len(j.triggered) THEN DoneJob(results)
       ELSE [j EXCEPT !.k = @ + 1, !.results = results]

\* `return { status, ... }` of the innermost call: the caller (a reviseBelief
\* waiting in one of its two cascade loops, or reviseAllTriggered) resumes.
\* cascadeResults.push(cr); cascadedIds.push(conn.id)
Resume(parent, child, status) ==
    IF parent.pc = "cascadeWait"
    THEN Advance([parent EXCEPT !.pc = "cascade", !.ci = @ + 1,
                                !.cascades = Append(@, status),
                                !.cascadedIds = Append(@, child.belief.id)])
    ELSE Advance([parent EXCEPT !.pc = "rescan", !.ri = @ + 1,
                                !.cascades = Append(@, status),
                                !.cascadedIds = Append(@, child.belief.id)])

Return(w, status) ==
    LET rest == Front(stack[w])
    IN IF rest = <<>>
       THEN /\ stack' = [stack EXCEPT ![w] = <<>>]
            /\ job' = [job EXCEPT ![w] = JobAfterBelief(@, status)]
       ELSE /\ stack' = [stack EXCEPT ![w] =
                            Front(rest) \o <<Resume(Last(rest), Top(w), status)>>]
            /\ UNCHANGED job

\* An exception leaves reviseBelief: no caller up to the deferred work's own
\* try/catch handles it, which logs it.
Throw(w) ==
    /\ stack' = [stack EXCEPT ![w] = <<>>]
    /\ job' = [job EXCEPT ![w] = FailedJob]

\* reviseAllTriggered: getBelief(belief.id), then reviseBelief(current) when it
\* is active and at or above the threshold.
ReviseAllTriggered(w) ==
    /\ job[w].pc = "reviseAll"
    /\ stack[w] = <<>>
    /\ LET id == job[w].triggered[job[w].k].id
       IN IF Revisable(beliefs, id)
          THEN /\ stack' = [stack EXCEPT ![w] = <<NewFrame(beliefs[id], 0)>>]
               /\ UNCHANGED job
          ELSE /\ job' = [job EXCEPT ![w] = JobAfterBelief(@, "skipped")]
               /\ UNCHANGED stack
    /\ UNCHANGED <<storeVars, hist, called, lockVars, turn, connectLog, reply>>

\* Entry of reviseBelief: the depth check, then getContradictions and
\* getConnectedBeliefs(belief.id, 1), whose rows come in no fixed order.
ReviseEnter(w) ==
    /\ stack[w] # <<>>
    /\ Top(w).pc = "enter"
    /\ IF DepthExceeded(Top(w).depth)
       THEN Return(w, "cascade_limit")
       ELSE /\ \E order \in Perms(ConnectedIds(beliefs, connections, Top(w).belief.id)) :
                  stack' = SetTop(w, [Top(w) EXCEPT
                              !.pc = "discover",
                              !.storedConnected = [i \in DOMAIN order |-> beliefs[order[i]]]])
            /\ UNCHANGED job
    /\ UNCHANGED <<storeVars, hist, called, lockVars, turn, connectLog, reply>>

\* variant: the discovered connections are not written back before the
\* revision is asked for
WriteBackSkipped(disc) == "callRevision"

\* for (const disc of discovered) { await connectBeliefs(...) ... }: the loop
\* runs, when there is anything to write, before callRevision.
AfterDiscover(disc) == IF disc = <<>> THEN "callRevision" ELSE "writeBack"

\* getActiveBeliefs() and discoverConnections(belief, allBeliefs).
ReviseDiscover(w, maxDiscovered) ==
    /\ stack[w] # <<>>
    /\ Top(w).pc = "discover"
    /\ LET all == getActiveBeliefs(beliefs)
           others == SelectSeq(all, LAMBDA b : b.id # Top(w).belief.id)
       IN \E disc \in SeqsUpTo(DiscoveredItems(others), maxDiscovered) :
             stack' = SetTop(w, [Top(w) EXCEPT
                         !.pc = AfterDiscover(disc),
                         !.allBeliefs = all, !.discovered = disc])
    /\ UNCHANGED <<storeVars, job, hist, called, lockVars, turn, connectLog, reply>>

\* One pass of the write-back loop: connectBeliefs(belief.id, disc.belief_id,
\* ..., "llm_revision", reasoning), then getBelief(disc.belief_id).
ReviseWriteBack(w) ==
    /\ stack[w] # <<>>
    /\ Top(w).pc = "writeBack"
    /\ LET f == Top(w)
           disc == f.discovered[f.di]
       IN /\ connections' = connectBeliefs(connections, f.belief.id, disc.belief_id,
                                disc.relation, disc.strength, "llm_revision", "discovered")
          /\ stack' = SetTop(w, [f EXCEPT
                         !.di = @ + 1,
                         !.pc = IF f.di + 1 > Len(f.discovered) THEN "callRevision" ELSE @,
                         !.newlyConnected =
                            IF beliefs[disc.belief_id].is_active
                            THEN Append(@, beliefs[disc.belief_id]) ELSE @])
    /\ UNCHANGED <<beliefs, ledger, revisions, job, hist, called, lockVars, turn, connectLog, reply>>

\* await callRevision(...): the catch block returns status error; a result of
\* null throws at result.revised_belief; any other value goes on to createBelief.
ReviseCallRevision(w, Results) ==
    /\ stack[w] # <<>>
    /\ Top(w).pc = "callRevision"
    /\ \E r \in Results :
          /\ called' = [called EXCEPT ![w] = r.kind]
          /\ IF CallRevisionThrows(r) THEN Return(w, "error")
             ELSE IF FieldAccessThrows(r) THEN Throw(w)
             ELSE /\ stack' = SetTop(w, [Top(w) EXCEPT !.pc = "create", !.result = r])
                  /\ UNCHANGED job
    /\ UNCHANGED <<storeVars, hist, lockVars, turn, connectLog, reply>>

\* createBelief(result.revised_belief ?? belief.content, belief.domain,
\* clamp(result.confidence ?? 0.5), belief.importance)
ReviseCreate(w) ==
    /\ stack[w] # <<>>
    /\ Top(w).pc = "create"
    /\ Len(beliefs) < MaxBeliefs
    /\ LET f == Top(w)
       IN IF ConfidenceCheckFails(ClampUnit(f.result.confidence))
          THEN /\ Throw(w)
               /\ UNCHANGED <<beliefs, hist>>
          ELSE /\ beliefs' = createBelief(beliefs, RevisedText(f.result, f.belief),
                                 f.belief.domain, ClampUnit(f.result.confidence),
                                 f.belief.importance)
               /\ hist' = Append(hist, NewHist(0))
               /\ stack' = SetTop(w, [f EXCEPT !.pc = "supersede", !.newId = Len(beliefs) + 1])
               /\ UNCHANGED job
    /\ UNCHANGED <<connections, ledger, revisions, called, lockVars, turn, connectLog, reply>>

\* supersedeBelief(belief.id, newBelief.id)
ReviseSupersede(w) ==
    /\ stack[w] # <<>>
    /\ Top(w).pc = "supersede"
    /\ beliefs' = supersedeBelief(beliefs, Top(w).belief.id, Top(w).newId)
    /\ hist' = HistAfterSupersede(hist, beliefs, Top(w).belief.id, Top(w).newId)
    /\ stack' = SetTop(w, [Top(w) EXCEPT !.pc = "transfer"])
    /\ UNCHANGED <<connections, ledger, revisions, job, called, lockVars, turn, connectLog, reply>>


\* The transfer of the connections to the successor and the connections the
\* collaborator suggested (every write has the successor as belief_a). The
\* locals no later line reads are dropped.
ReviseTransfer(w) ==
    /\ stack[w] # <<>>
    /\ Top(w).pc = "transfer"
    /\ LET f == Top(w)
           all == AllConnected(f)
       IN /\ connections' = SuggestedConnections(
                                TransferConnections(connections, f.newId, all),
                                f.newId, f.result.new_connections, f.allBeliefs)
          /\ stack' = SetTop(w, [f EXCEPT !.pc = "log", !.allConnected = all,
                                           !.storedConnected = <<>>, !.newlyConnected = <<>>,
                                           !.allBeliefs = <<>>, !.discovered = <<>>, !.di = 1])
    /\ UNCHANGED <<beliefs, ledger, revisions, job, hist, called, lockVars, turn, connectLog, reply>>

\* INSERT INTO revisions (..., cascaded_beliefs, ...) with the cascadedIds of
\* that moment; then the cascade begins.
ReviseLog(w) ==
    /\ stack[w] # <<>>
    /\ Top(w).pc = "log"
    /\ LET f == Top(w)
       IN /\ revisions' = Append(revisions,
                [old_belief_id |-> f.belief.id, new_belief_id |-> f.newId,
                 trigger_tension |-> f.belief.tension,
                 cascaded_beliefs |-> f.cascadedIds])
          /\ stack' = SetTop(w, Advance([f EXCEPT !.pc = "cascade"]))
    /\ UNCHANGED <<beliefs, connections, ledger, job, hist, called, lockVars, turn, connectLog, reply>>

\* One cascade_updates entry: addTension(conn.id, delta), then
\* reviseBelief(updated, depth + 1) when the row is at or above the threshold.
ReviseCascade(w) ==
    /\ stack[w] # <<>>
    /\ Top(w).pc = "cascade"
    /\ LET f == Top(w)
           entry == f.result.cascade_updates[f.ci]
           id == f.allConnected[CascadeTarget(f.allConnected, entry)].id
           delta == entry.new_tension_delta
       IN IF TensionCheckFails(beliefs, id, delta)
          THEN /\ Throw(w)
               /\ UNCHANGED <<beliefs, hist>>
          ELSE /\ beliefs' = addTension(beliefs, id, delta)
               /\ hist' = HistAfterTension(hist, beliefs, id, delta, w)
               /\ IF Triggered(beliefs', id, Updatable(beliefs, id))
                  THEN stack' = [stack EXCEPT ![w] =
                                    Front(@) \o <<[f EXCEPT !.pc = "cascadeWait"],
                                                  NewFrame(beliefs'[id], ChildDepth(f.depth))>>]
                  ELSE stack' = SetTop(w, Advance([f EXCEPT !.ci = @ + 1]))
               /\ UNCHANGED job
    /\ UNCHANGED <<connections, ledger, revisions, called, lockVars, turn, connectLog, reply>>

\* One connected belief near the threshold: getBelief(conn.id), then
\* reviseBelief(current, depth + 1) when it is active and at or above it.
ReviseRescan(w) ==
    /\ stack[w] # <<>>
    /\ Top(w).pc = "rescan"
    /\ LET f == Top(w)
           id == f.allConnected[f.ri].id
       IN IF Revisable(beliefs, id)
          THEN stack' = [stack EXCEPT ![w] =
                            Front(@) \o <<[f EXCEPT !.pc = "rescanWait"],
                                          NewFrame(beliefs[id], ChildDepth(f.depth))>>]
          ELSE stack' = SetTop(w, Advance([f EXCEPT !.ri = @ + 1]))
    /\ UNCHANGED <<storeVars, job, hist, called, lockVars, turn, connectLog, reply>>

\* return { status: "revised", ... }
ReviseReturn(w) ==
    /\ stack[w] # <<>>
    /\ Top(w).pc = "return"
    /\ Return(w, "revised")
    /\ hist' = [hist EXCEPT ![Top(w).belief.id].revisedReturns = @ + 1]
    /\ UNCHANGED <<storeVars, called, lockVars, turn, connectLog, reply>>


\* ------------------------------------------------------------ session lock
\* A variant of withSessionLock that does not wait for the stored promise;
\* SessionSerialized does not hold of it.
PromiseIgnored(p) == TRUE

\* prev.then(fn, fn) runs fn once prev is settled. prev is Promise.resolve()
\* (0) or the promise stored by the interaction p, next.catch(() => {}), which
\* is fulfilled as soon as p's body has returned or thrown.
PromiseSettled(p) ==
    IF p = 0 THEN TRUE ELSE interactions[p].state \in {"fulfilled", "rejected"}

\* sessionLocks.get(sessionId) ?? Promise.resolve()
LockHolder(locks, s) == locks[s].of

\* processInteraction up to its await: _userRequestActive is raised, and
\* withSessionLock chains the body on the stored promise and stores
\* next.catch(() => {}), a new promise object.
ProcessInteraction(s) ==
    /\ Len(interactions) < MaxInteractions
    /\ interactions' = Append(interactions,
            [session |-> s, prev |-> LockHolder(sessionLocks, s), state |-> "waiting"])
    /\ sessionLocks' = [sessionLocks EXCEPT
                            ![s] = [of |-> Len(interactions) + 1, promise |-> promiseCount + 1]]
    /\ promiseCount' = promiseCount + 1
    /\ userRequestActive' = IF s # "autonomous" THEN TRUE ELSE userRequestActive
    /\ UNCHANGED <<storeVars, job, stack, hist, called, turn, connectLog, reply>>

\* The body _processInteraction of interaction n begins.
BeginInteraction(n) ==
    /\ n \in 1..Len(interactions)
    /\ interactions[n].state = "waiting"
    /\ PromiseSettled(interactions[n].prev)
    /\ interactions' = [interactions EXCEPT ![n].state = "running"]
    /\ UNCHANGED <<storeVars, job, stack, hist, called, sessionLocks, userRequestActive,
                 promiseCount, turn, connectLog, reply>>

\* The body returns or throws. The callback of next.finally compares the
\* stored promise with next.catch(() => {}), one more new promise object, and
\* deletes the entry when they are the same object; then the finally block of
\* processInteraction lowers _userRequestActive.
FinishInteraction(n, outcome) ==
    /\ n \in 1..Len(interactions)
    /\ interactions[n].state = "running"
    /\ interactions' = [interactions EXCEPT ![n].state = outcome]
    /\ LET s == interactions[n].session
           fresh == promiseCount + 1
       IN /\ sessionLocks' = IF sessionLocks[s].promise = fresh
                             THEN [sessionLocks EXCEPT ![s] = [of |-> 0, promise |-> 0]]
                             ELSE sessionLocks
          /\ userRequestActive' = IF s # "autonomous" THEN FALSE ELSE userRequestActive
    /\ promiseCount' = promiseCount + 1
    /\ UNCHANGED <<storeVars, job, stack, hist, called, turn, connectLog, reply>>

\* ---------------------------------------------------------- specifications
\* What extractEvidence can hand to accumulate: belief_id is the id of a belief
\* (or null), strength is clamped to [0,1].
Strengths == {40, ONE}

EvidenceItems ==
    [belief_id : 1..Len(SeedRows) \cup {NoBelief}, stance : {"contradicting"}, strength : Strengths]
    \cup [belief_id : 1..Len(SeedRows), stance : {"reinforcing"}, strength : {ONE}]
    \cup [belief_id : {NoBelief}, stance : {"neutral"}, strength : {ONE}]

ReviseStep(w, Results, maxDiscovered) ==
    \/ ReviseAllTriggered(w)
    \/ ReviseEnter(w)
    \/ ReviseDiscover(w, maxDiscovered)
    \/ ReviseWriteBack(w)
    \/ ReviseCallRevision(w, Results)
    \/ ReviseCreate(w)
    \/ ReviseSupersede(w)
    \/ ReviseTransfer(w)
    \/ ReviseLog(w)
    \/ ReviseCascade(w)
    \/ ReviseRescan(w)
    \/ ReviseReturn(w)

\* The deferred work of one turn, against every answer of the collaborators.
\* The evidence lists a deferred work is started with.
SpecEvidence == SeqsUpTo(EvidenceItems, MaxEvidence)

Next ==
    \/ StartJob(1, SpecEvidence)
    \/ Accumulate(1)
    \/ ReviseStep(1, RevisionResults, MaxDiscovered)

Spec == Init /\ [][Next]_vars

TypeOK ==
    /\ \A i \in Ids(beliefs) :
          /\ beliefs[i].id = i
          /\ beliefs[i].superseded_by \in Ids(beliefs) \cup {NoBelief}
    /\ Len(hist) = Len(beliefs)
    /\ Len(beliefs) < MaxBeliefs

\* The accumulate passes of NumWorkers turns at the same time, while the
\* revision collaborator is down.
StoreEvidenceItems ==
    [belief_id : {1, 3}, stance : {"contradicting"}, strength : Strengths]
    \cup [belief_id : {3}, stance : {"reinforcing"}, strength : {ONE}]

StoreEvidence == SeqsUpTo(StoreEvidenceItems, MaxStoreEvidence)

StoreNext ==
    \E w \in Workers :
        \/ StartJob(w, StoreEvidence)
        \/ Accumulate(w)
        \/ ReviseAllTriggered(w)
        \/ ReviseEnter(w)
        \/ ReviseDiscover(w, 0)
        \/ ReviseCallRevision(w, {ResultOfKind("throw")})

StoreSpec == Init /\ [][StoreNext]_vars

\* The calls of processInteraction and their bodies.
LockNext ==
    \/ \E s \in Sessions : ProcessInteraction(s)
    \/ \E n \in 1..MaxInteractions :
          \/ BeginInteraction(n)
          \/ FinishInteraction(n, "fulfilled")
          \/ FinishInteraction(n, "rejected")

LockSpec == Init /\ [][LockNext]_vars

\* The deferred work of one turn under fair scheduling: a step that can be
\* taken is taken (the event loop runs every continuation whose await has
\* settled, and every collaborator call returns or fails).
FairSpec == Spec /\ WF_vars(Next)

\* ------------------------------------------------------------------ properties
\* The frames of worker w, outermost first.
Frames(w) == {stack[w][i] : i \in 1..Len(stack[w])}

\* In this step the innermost reviseBelief call of worker w returned `status`
\* to its caller: a reviseBelief in one of its cascade loops, or
\* reviseAllTriggered.
Returned(w, status) ==
    /\ Len(stack'[w]) = Len(stack[w]) - 1
    /\ IF Len(stack[w]) = 1
       THEN job'[w].results = Append(job[w].results, status)
       ELSE Last(stack'[w]).cascades = Append(stack[w][Len(stack[w]) - 1].cascades, status)

\* C1: the tension of a belief is never lowered: across every step, each
\* belief that is active after the step has at least the tension it had
\* before it.
TensionMonotone ==
    [][\A b \in Ids(beliefs) :
          beliefs'[b].is_active => beliefs'[b].tension >= beliefs[b].tension]_vars

\* C2: during a revision no state exists in which the successor is there and
\* active while the original is still active with tension at or above
\* REVISION_THRESHOLD.
RevisionAtomic ==
    \A w \in Workers : \A f \in Frames(w) :
        f.newId # NoBelief =>
            ~ /\ beliefs[f.newId].is_active
              /\ beliefs[f.belief.id].is_active
              /\ beliefs[f.belief.id].tension >= REVISION_THRESHOLD

\* C3: every belief that is not active has superseded_by set to the id of a
\* belief of the table.
InactiveHasSuccessor ==
    \A b \in Ids(beliefs) :
        ~beliefs[b].is_active =>
            /\ beliefs[b].superseded_by # NoBelief
            /\ beliefs[b].superseded_by \in Ids(beliefs)

\* C3 witness: a belief was superseded.
SomeInactive == \E b \in Ids(beliefs) : ~beliefs[b].is_active

\* C4: under every interleaving of the turns' addTension and reinforceBelief
\* calls, a belief's tension is min(1, t0 + the sum of the deltas applied to
\* it) and its reinforcement_count is the number of reinforceBelief calls.
AccumulatedExactly ==
    \A b \in Ids(beliefs) :
        /\ beliefs[b].tension = Min(ONE, hist[b].t0 + hist[b].applied)
        /\ beliefs[b].reinforcement_count = hist[b].reinforced

\* C4 witness: two turns have raised the tension of one belief, past
\* saturation.
TwoCallersSaturated ==
    \E b \in Ids(beliefs) :
        /\ Cardinality(hist[b].callers) >= 2
        /\ hist[b].t0 + hist[b].applied > ONE

\* The interactions of session s made before interaction n.
Earlier(n) ==
    {m \in 1..(n - 1) : interactions[m].session = interactions[n].session}

Finished(m) == interactions[m].state \in {"fulfilled", "rejected"}

\* C5: the body of an interaction has begun only if every earlier interaction
\* of its session has finished, so at most one body per session is running;
\* and once they have all finished, by returning or by throwing, the body can
\* begin.
SessionSerialized ==
    \A n \in 1..Len(interactions) :
        /\ interactions[n].state # "waiting" => \A m \in Earlier(n) : Finished(m)
        /\ \A m \in 1..Len(interactions) :
              (m # n /\ interactions[m].session = interactions[n].session)
                  => ~(interactions[m].state = "running" /\ interactions[n].state = "running")
        /\ (interactions[n].state = "waiting" /\ \A m \in Earlier(n) : Finished(m))
              => ENABLED BeginInteraction(n)

\* C5 witness: a body is running after the one before it on its session threw.
RunningAfterFailure ==
    \E n \in 1..Len(interactions) :
        /\ interactions[n].state = "running"
        /\ interactions[n].prev # 0
        /\ interactions[interactions[n].prev].state = "rejected"

\* C6: in a chain of nested reviseBelief calls the depth grows by one per
\* level from 0, no call is deeper than CASCADE_DEPTH_LIMIT, and a call past
\* its depth check is less deep than CASCADE_DEPTH_LIMIT.
DepthBounded ==
    \A w \in Workers : \A i \in 1..Len(stack[w]) :
        /\ stack[w][i].depth = i - 1
        /\ stack[w][i].depth <= CASCADE_DEPTH_LIMIT
        /\ stack[w][i].pc # "enter" => stack[w][i].depth < CASCADE_DEPTH_LIMIT

\* C6 witness: a call at depth CASCADE_DEPTH_LIMIT - 1 is past its check and
\* about to write.
DeepestRevision ==
    \E w \in Workers :
        /\ stack[w] # <<>>
        /\ Top(w).depth = CASCADE_DEPTH_LIMIT - 1
        /\ Top(w).pc = "create"

RevisionEnds == \A w \in Workers : (stack[w] # <<>>) ~> (stack[w] = <<>>)

\* C8: a reviseBelief call whose depth is CASCADE_DEPTH_LIMIT or more returns
\* cascade_limit in one step that writes nothing; the belief it was given
\* stays active with the tension it had.
CascadeLimitNoWrites ==
    [][\A w \in Workers :
          (/\ stack[w] # <<>>
           /\ Top(w).pc = "enter"
           /\ Top(w).depth >= CASCADE_DEPTH_LIMIT
           /\ stack'[w] # stack[w])
          => /\ Returned(w, "cascade_limit")
             /\ storeVars' = storeVars
             /\ called' = called
             /\ beliefs'[Top(w).belief.id].is_active
             /\ beliefs'[Top(w).belief.id].tension = Top(w).belief.tension]_vars

\* C8 witness: a call has returned cascade_limit to the call that cascaded
\* into it.
SomeCascadeLimit ==
    \E w \in Workers : \E f \in Frames(w) : "cascade_limit" \in Range(f.cascades)

\* C9: when callRevision throws, the call returns error in that step, no
\* belief row and no revision record is written, and the belief under
\* revision is active with the tension and confidence it came with and no
\* successor.
ErrorLeavesBelief ==
    [][\A w \in Workers :
          (/\ stack[w] # <<>>
           /\ Top(w).pc = "callRevision"
           /\ stack'[w] # stack[w]
           /\ called'[w] = "throw")
          => /\ Returned(w, "error")
             /\ beliefs' = beliefs
             /\ revisions' = revisions
             /\ beliefs'[Top(w).belief.id].is_active
             /\ beliefs'[Top(w).belief.id].tension = Top(w).belief.tension
             /\ beliefs'[Top(w).belief.id].confidence = Top(w).belief.confidence
             /\ beliefs'[Top(w).belief.id].superseded_by = NoBelief]_vars

\* C9 witness: callRevision threw in a nested call after connections were
\* discovered and written, and the caller has the status error.
NestedError ==
    \E w \in Workers : \E f \in Frames(w) :
        /\ called[w] = "throw"
        /\ "error" \in Range(f.cascades)
        /\ \E k \in DOMAIN connections : connections[k].discovery_method = "llm_revision"

\* C10: a result that is not an object with the expected fields (an empty
\* object, an array, null) never gets a call past callRevision, and the call
\* does not end by an exception.
MalformedIsError ==
    \A w \in Workers :
        /\ \A f \in Frames(w) : f.result.kind \notin {"empty_object", "array", "null"}
        /\ called[w] = "null" => job[w].pc # "threw"


\* ------------------------------------------------ the connections endpoint
\* POST /api/connections: one call of connectBeliefs with the fields of the body;
\* a row that names a belief that does not exist fails the foreign key
ConnectCall(a, b, relation, strength, method, reasoning) ==
    /\ Len(connectLog) < MaxConnectCalls
    /\ a \in Ids(beliefs) /\ b \in Ids(beliefs)
    /\ connections' = connectBeliefs(connections, a, b, relation, strength, method, reasoning)
    /\ connectLog' = Append(connectLog, [a |-> a, b |-> b, relation |-> relation,
                                         strength |-> strength, method |-> method,
                                         reasoning |-> reasoning])
    /\ UNCHANGED <<beliefs, ledger, revisions, job, stack, hist, called, lockVars, turn, reply>>

ConnectPairs == {<<1, 3>>, <<1, 2>>}
ConnectStrengths == {60, 90}
ConnectRelations == {"supports", "contradicts"}
ConnectMethods == {"seed", "manual", "llm_evidence"}
ConnectReasonings == {NoReasoning, "r1", "r2"}

ConnNext ==
    \E k \in ConnectPairs, relation \in ConnectRelations, strength \in ConnectStrengths,
       method \in ConnectMethods, reasoning \in ConnectReasonings :
        ConnectCall(k[1], k[2], relation, strength, method, reasoning)

ConnSpec == Init /\ [][ConnNext]_vars

\* the calls made on one pair, oldest first: the call that seeded it, then the logged ones
SeedCall(k) ==
    IF k \in DOMAIN SeedConnections
    THEN <<[a |-> k[1], b |-> k[2], relation |-> SeedConnections[k].relation,
            strength |-> SeedConnections[k].strength,
            method |-> SeedConnections[k].discovery_method,
            reasoning |-> SeedConnections[k].discovery_reasoning]>>
    ELSE <<>>

LoggedCalls(k) == SelectSeq(connectLog, LAMBDA c : <<c.a, c.b>> = k)

CallsOn(k) == SeedCall(k) \o LoggedCalls(k)

\* the calls whose strength is strictly greater than that of every earlier call
Raising(calls) ==
    {i \in DOMAIN calls : \A j \in 1..(i - 1) : calls[j].strength < calls[i].strength}

LastRaising(calls) == CHOOSE i \in Raising(calls) : \A j \in Raising(calls) : j <= i

\* C16: after any sequence of connectBeliefs calls on one pair the stored
\* strength is the greatest strength supplied, and the stored relation is the
\* relation of the last call that was strictly stronger than all calls before it
StrengthIsMaximum ==
    \A k \in DOMAIN connections :
        LET calls == CallsOn(k) IN
        /\ calls # <<>>
        /\ \E i \in DOMAIN calls : connections[k].strength = calls[i].strength
        /\ \A i \in DOMAIN calls : connections[k].strength >= calls[i].strength
        /\ connections[k].relation = calls[LastRaising(calls)].relation

\* supports at 0.6 and then contradicts at 0.9 on a pair that had no connection:
\* the row says contradicts at 0.9
RaisedThenWeaker ==
    /\ Len(connectLog) = 2
    /\ connectLog[1].a = connectLog[2].a /\ connectLog[1].b = connectLog[2].b
    /\ <<connectLog[1].a, connectLog[1].b>> = <<1, 2>>
    /\ connectLog[1].relation = "supports" /\ connectLog[1].strength = 60
    /\ connectLog[2].relation = "contradicts" /\ connectLog[2].strength = 90
    /\ connections[<<1, 2>>].relation = "contradicts"
    /\ connections[<<1, 2>>].strength = 90

\* C17: the discovery_method of a connection changes only from seed to a
\* method other than seed; once it is not seed no call changes it
MethodUpgradedOnce ==
    [][\A k \in DOMAIN connections :
          connections'[k].discovery_method # connections[k].discovery_method
              => /\ connections[k].discovery_method = "seed"
                 /\ connections'[k].discovery_method # "seed"]_vars

\* a connection upgraded from seed to manual, then called with seed and with
\* another method, still says manual
UpgradedThenCalled ==
    /\ Len(connectLog) = 3
    /\ \A i \in 1..3 : <<connectLog[i].a, connectLog[i].b>> = <<1, 3>>
    /\ connectLog[1].method = "manual"
    /\ connectLog[2].method = "seed"
    /\ connectLog[3].method = "llm_evidence"
    /\ connections[<<1, 3>>].discovery_method = "manual"

\* C18: a call of connectBeliefs never overwrites the reasoning that a
\* connection already has
ReasoningKept ==
    [][\A k \in DOMAIN connections :
          connections[k].discovery_reasoning # NoReasoning
              => connections'[k].discovery_reasoning = connections[k].discovery_reasoning]_vars


\* ------------------------------------------------ one batch of evidence
\* The store a batch of evidence can meet: the first seed at the tension the
\* seeds have after three or four full contradictions, the third seed at its
\* seeded confidence or close to 1, and the second seed either active or
\* revised at tension 0.75 into a successor of the same text.
AccTensions == {55, 60}
AccConfidences == {60, 99}

AccBase(t1, c3) == [SeedTable(Len(SeedRows)) EXCEPT ![1].tension = t1, ![3].confidence = c3]

AccTable(t1, c3, revised) ==
    LET base == AccBase(t1, c3)
        old == [base EXCEPT ![2].tension = 75]
    IN IF revised
       THEN supersedeBelief(createBelief(old, old[2].content, old[2].domain, 50,
                                         old[2].importance), 2, Len(old) + 1)
       ELSE base

AccConnections(revised) ==
    IF revised
    THEN TransferConnections(SeedConnections, Len(SeedRows) + 1, <<AccBase(60, 60)[1]>>)
    ELSE SeedConnections

AccInit ==
    /\ \E t1 \in AccTensions, c3 \in AccConfidences, revised \in BOOLEAN :
          /\ beliefs = AccTable(t1, c3, revised)
          /\ connections = AccConnections(revised)
    /\ hist = [i \in Ids(beliefs) |-> NewHist(beliefs[i].tension)]
    /\ ledger = <<>>
    /\ revisions = <<>>
    /\ job = [w \in Workers |-> IdleJob]
    /\ stack = [w \in Workers |-> <<>>]
    /\ called = [w \in Workers |-> "none"]
    /\ interactions = <<>>
    /\ sessionLocks = [s \in Sessions |-> [of |-> 0, promise |-> 0]]
    /\ userRequestActive = FALSE
    /\ promiseCount = 0
    /\ turn = NoTurn
    /\ connectLog = <<>>
    /\ reply = NoReply

AccEvidenceItems ==
    [belief_id : {1, 2, NoBelief}, stance : {"contradicting"}, strength : Strengths]
    \cup [belief_id : {2, 3}, stance : {"reinforcing"}, strength : Strengths]
    \cup [belief_id : {1}, stance : {"neutral"}, strength : {ONE}]

AccEvidence == SeqsUpTo(AccEvidenceItems, MaxAccEvidence)

AccNext ==
    \/ StartJob(1, AccEvidence)
    \/ Accumulate(1)
    \/ ReviseAllTriggered(1)
    \/ ReviseEnter(1)
    \/ ReviseDiscover(1, 0)
    \/ ReviseCallRevision(1, {ResultOfKind("throw")})

AccSpec == AccInit /\ [][AccNext]_vars

\* the items of the batch that accumulate has passed
Passed == 1..(job[1].i - 1)

\* item k is a contradicting item that names belief id
Contradicts(k, id) ==
    /\ job[1].ev[k].stance = "contradicting"
    /\ id # NoBelief
    /\ job[1].ev[k].belief_id = id

RECURSIVE SumOver(_, _)
SumOver(f, S) ==
    IF S = {} THEN 0 ELSE LET x == CHOOSE y \in S : TRUE IN f[x] + SumOver(f, S \ {x})

\* the tension item k leaves on belief id: what the belief had before the batch
\* plus TENSION_INCREMENT * strength for each contradicting item up to k, at most 1
TensionLeft(id, k) ==
    LET hits == {m \in 1..k : Contradicts(m, id)}
        delta == [m \in hits |-> (TENSION_INCREMENT * job[1].ev[m].strength) \div ONE]
    IN IF hist[id].t0 + SumOver(delta, hits) > ONE THEN ONE
       ELSE hist[id].t0 + SumOver(delta, hits)

\* the contradicting items passed that left an active belief at or above the threshold
Triggering ==
    {k \in Passed : \E id \in Ids(beliefs) :
        Contradicts(k, id) /\ beliefs[id].is_active /\ TensionLeft(id, k) >= REVISION_THRESHOLD}

RECURSIVE Ascending(_)
Ascending(S) ==
    IF S = {} THEN <<>>
    ELSE LET x == CHOOSE y \in S : \A z \in S : y <= z IN <<x>> \o Ascending(S \ {x})

Reinforces(id) ==
    /\ job[1].pc = "accumulate"
    /\ job[1].i <= Len(job[1].ev)
    /\ job[1].ev[job[1].i].stance = "reinforcing"
    /\ job[1].ev[job[1].i].belief_id = id
    /\ beliefs[id].is_active

\* C20: reinforceBelief on an active belief of confidence c < 1 leaves a
\* confidence strictly greater than c and at most 1, whatever the strength of
\* the item; reinforcement_count grows by 1 and tension stays
ReinforceStrictlyGrows ==
    [][\A id \in Ids(beliefs) :
          Reinforces(id) =>
              /\ beliefs[id].confidence < ONE => beliefs'[id].confidence > beliefs[id].confidence
              /\ beliefs'[id].confidence <= ONE
              /\ beliefs'[id].reinforcement_count = beliefs[id].reinforcement_count + 1
              /\ beliefs'[id].tension = beliefs[id].tension]_vars


\* ------------------------------------------- two turns, one triggered belief
\* Two turns whose evidence contradicts the first seed at full strength; the
\* reconstruction collaborator answers each revision with an object that
\* names no field.
RaceEvidence == {<<[belief_id |-> 1, stance |-> "contradicting", strength |-> ONE]>>}

RaceNext ==
    \E w \in Workers :
        \/ StartJob(w, RaceEvidence)
        \/ Accumulate(w)
        \/ ReviseAllTriggered(w)
        \/ ReviseEnter(w)
        \/ ReviseDiscover(w, 0)
        \/ ReviseCallRevision(w, {ResultOfKind("empty_object")})
        \/ ReviseCreate(w)
        \/ ReviseSupersede(w)
        \/ ReviseTransfer(w)
        \/ ReviseLog(w)
        \/ ReviseRescan(w)
        \/ ReviseReturn(w)

RaceSpec == Init /\ [][RaceNext]_vars

\* both turns have revised belief id at depth 0 and their deferred work is over
BothRevised(id) ==
    /\ Len(hist[id].successors) = 2
    /\ \A w \in Workers : job[w].pc = "done" /\ job[w].results = <<"revised">>

\* C14: when two turns have both revised the same belief, the two successors
\* are distinct rows and both are active, the original is inactive, and its
\* superseded_by is the successor of the supersedeBelief call issued last
BothSuccessorsPersist ==
    \A id \in Ids(beliefs) :
        BothRevised(id) =>
            LET first == hist[id].successors[1]
                last == hist[id].successors[2]
            IN /\ first # last
               /\ first \in Ids(beliefs) /\ last \in Ids(beliefs)
               /\ beliefs[first].is_active /\ beliefs[last].is_active
               /\ ~beliefs[id].is_active
               /\ beliefs[id].superseded_by = last
               /\ Cardinality({i \in Ids(beliefs) : beliefs[i].superseded_by \in {first, last}}) = 1

\* both turns revised the first seed, and the successor created first was
\* written last
CreatedFirstWrittenLast ==
    /\ BothRevised(1)
    /\ hist[1].successors[2] < hist[1].successors[1]
    /\ beliefs[1].superseded_by = hist[1].successors[2]


\* ------------------------------------------------------- dissatisfaction
\* The row of NULLs a LEFT JOIN gives a belief that no connection touches.
NullRow == <<NoBelief, NoBelief>>

\* FROM beliefs b LEFT JOIN belief_connections c
\*   ON (c.belief_a = b.id OR c.belief_b = b.id)
JoinedRows(cs, id) ==
    LET matches == {k \in DOMAIN cs : k[1] = id \/ k[2] = id}
    IN IF matches = {} THEN {NullRow} ELSE matches

\* variant: COUNT(*), which also counts the row of NULLs
CountRows(rows) == Cardinality(rows)

\* COUNT(c.belief_a): the rows whose belief_a is not NULL
CountNonNull(rows) == Cardinality({k \in rows : k[1] # NoBelief})

\* WITH belief_density AS (SELECT ..., COALESCE(COUNT(c.belief_a), 0) + 1 AS connections
\*   ... WHERE b.is_active = true GROUP BY b.id)
BeliefDensity(bs, cs) ==
    [id \in {i \in Ids(bs) : bs[i].is_active} |-> CountNonNull(JoinedRows(cs, id)) + 1]

\* CASE WHEN COUNT(*) = 0 THEN 0
\*      ELSE SUM(tension * importance * connections) / SUM(importance * connections) END
\* as the fraction <<numerator, denominator>>; the query fails with a division
\* by zero when the denominator is 0.
computeDissatisfaction(bs, cs) ==
    LET density == BeliefDensity(bs, cs)
        rows == DOMAIN density
        num == SumOver([id \in rows |-> bs[id].tension * bs[id].importance * density[id]], rows)
        den == SumOver([id \in rows |-> bs[id].importance * density[id]], rows)
    IN IF rows = {} THEN <<0, 1>> ELSE <<num, den>>

DivisionByZero(d) == d[2] = 0

\* dissatisfaction > 0.6, for a fraction of hundredths
Exceeds(d, limit) == d[1] > limit * d[2]

\* let dissatisfaction = await computeDissatisfaction(); let activeBeliefs =
\* await getActiveBeliefs(): the first statements of _processInteraction; an
\* error of the first query rejects the turn
TurnBegin ==
    /\ turn.pc = "none"
    /\ LET d == computeDissatisfaction(beliefs, connections)
       IN turn' = IF DivisionByZero(d) THEN [turn EXCEPT !.pc = "failed"]
                  ELSE [turn EXCEPT !.pc = "urgent", !.dissatisfaction = d,
                                    !.activeBeliefs = getActiveBeliefs(beliefs)]
    /\ UNCHANGED <<storeVars, job, stack, hist, called, lockVars, connectLog, reply>>

\* The stores the aggregate is computed over: none before seeding, or four
\* beliefs created through the beliefs endpoint, the third of which may have
\* been superseded by the fourth, with connections made through the
\* connections endpoint.
DissTensions == {10, 80}
DissPairs == {<<1, 3>>, <<1, 4>>, <<2, 1>>, <<4, 3>>}

DissTable(t, imp, superseded) ==
    LET made == [i \in 1..4 |->
                    [createBelief(<<>>, <<"belief">>, "self", 50, imp[i])[1]
                        EXCEPT !.id = i, !.tension = t[i]]]
    IN IF superseded THEN supersedeBelief(made, 3, 4) ELSE made

RECURSIVE ConnectAll(_, _)
ConnectAll(cs, pairs) ==
    IF pairs = {} THEN cs
    ELSE LET k == CHOOSE x \in pairs : TRUE
         IN ConnectAll(connectBeliefs(cs, k[1], k[2], "supports", 50, "manual", NoReasoning),
                       pairs \ {k})

DissInit ==
    /\ \/ /\ beliefs = <<>>
          /\ connections = EmptyConnections
       \/ \E t \in [1..4 -> DissTensions], superseded \in BOOLEAN, pairs \in SUBSET DissPairs :
          \E imp \in [1..4 -> {0, 50, 90}] :
             /\ imp[1] # 50 /\ imp[2] # 90 /\ imp[3] = 50 /\ imp[4] # 90
             /\ t[3] = 80
             /\ beliefs = DissTable(t, imp, superseded)
             /\ connections = ConnectAll(EmptyConnections, pairs)
    /\ hist = [i \in Ids(beliefs) |-> NewHist(beliefs[i].tension)]
    /\ ledger = <<>>
    /\ revisions = <<>>
    /\ job = [w \in Workers |-> IdleJob]
    /\ stack = [w \in Workers |-> <<>>]
    /\ called = [w \in Workers |-> "none"]
    /\ interactions = <<>>
    /\ sessionLocks = [s \in Sessions |-> [of |-> 0, promise |-> 0]]
    /\ userRequestActive = FALSE
    /\ promiseCount = 0
    /\ turn = NoTurn
    /\ connectLog = <<>>
    /\ reply = NoReply

DissNext == TurnBegin

DissSpec == DissInit /\ [][DissNext]_vars

\* the active beliefs, the number of connections that touch a belief plus one,
\* and the two weighted sums
ActiveIds == {i \in Ids(beliefs) : beliefs[i].is_active}

Density(id) == Cardinality({k \in DOMAIN connections : id \in {k[1], k[2]}}) + 1

WeightedTension ==
    SumOver([i \in ActiveIds |-> beliefs[i].tension * beliefs[i].importance * Density(i)],
            ActiveIds)

Weight == SumOver([i \in ActiveIds |-> beliefs[i].importance * Density(i)], ActiveIds)

\* C19: the value computeDissatisfaction returned at the start of the turn is
\* the sum over the active beliefs of tension * importance * density divided by
\* the sum of importance * density, with density the number of connections
\* touching the belief plus one, and it is 0 when no belief is active
DissatisfactionIsWeightedMean ==
    turn.pc = "urgent" =>
        /\ turn.dissatisfaction[2] # 0
        /\ ActiveIds = {} => turn.dissatisfaction[1] = 0
        /\ ActiveIds # {} =>
              /\ Weight # 0
              /\ turn.dissatisfaction[1] * Weight = WeightedTension * turn.dissatisfaction[2]

\* A (tension 0.8, importance 0.9, two connections) and B (tension 0.1,
\* importance 0.5, none), the other beliefs superseded or of importance 0:
\* the value returned is 2.21 / 3.2
TwoBeliefsExample ==
    /\ turn.pc = "urgent"
    /\ Len(beliefs) = 4
    /\ beliefs[1].tension = 80 /\ beliefs[1].importance = 90 /\ Density(1) = 3
    /\ beliefs[2].tension = 10 /\ beliefs[2].importance = 50 /\ Density(2) = 1
    /\ ~beliefs[3].is_active
    /\ beliefs[4].importance = 0
    /\ turn.dissatisfaction[1] * 320 = 221 * ONE * turn.dissatisfaction[2]


\* ------------------------------------------- one batch, two triggered beliefs
\* The evidence of one turn contradicts the first seed, the second seed, or
\* both at full strength; the reconstruction collaborator answers with an
\* object that names no field or with null, or fails.
BatchItem(id) == [belief_id |-> id, stance |-> "contradicting", strength |-> ONE]

BatchEvidence == {<<BatchItem(1)>>, <<BatchItem(2)>>, <<BatchItem(1), BatchItem(2)>>,
                  <<BatchItem(2), BatchItem(1)>>}

BatchResults == {ResultOfKind("empty_object"), ResultOfKind("null"), ResultOfKind("throw")}

BatchNext ==
    \/ StartJob(1, BatchEvidence)
    \/ Accumulate(1)
    \/ ReviseAllTriggered(1)
    \/ ReviseEnter(1)
    \/ ReviseDiscover(1, 0)
    \/ ReviseCallRevision(1, BatchResults)
    \/ ReviseCreate(1)
    \/ ReviseSupersede(1)
    \/ ReviseTransfer(1)
    \/ ReviseLog(1)
    \/ ReviseRescan(1)
    \/ ReviseReturn(1)

\* every step of the deferred work is a callback of the event loop, which
\* runs each callback that is ready
FairBatchSpec == Init /\ [][BatchNext]_vars /\ WF_vars(BatchNext)

\* accumulate has collected belief id for reviseAllTriggered
Collected(id) ==
    /\ job[1].pc \in {"accumulate", "reviseAll"}
    /\ \E k \in DOMAIN job[1].triggered : job[1].triggered[k].id = id

\* reviseBelief is running on belief id at depth 0
InvokedAtDepth0(id) ==
    /\ stack[1] # <<>>
    /\ stack[1][1].belief.id = id
    /\ stack[1][1].depth = 0

\* C13: a belief that the evidence of the turn brought to REVISION_THRESHOLD
\* is eventually given to reviseBelief at depth 0 by the deferred work of the
\* turn, unless it is by then inactive or below the threshold
TriggeredEventuallyRevised ==
    \A id \in 1..Len(SeedRows) :
        Collected(id) ~> (InvokedAtDepth0(id) \/ ~Revisable(beliefs, id))


\* ------------------------------------------------------------- one turn
\* The turn's pre-revision runs as the work of the first worker, the work it
\* defers with setImmediate as the work of the second.
EagerWorker == 1
DeferredWorker == 2

\* SELECT * FROM beliefs WHERE is_active = true AND tension >= $1
\* ORDER BY tension DESC: the orders the rows can come in (ids)
getBeliefsAboveThreshold(bs) ==
    {order \in Perms({i \in Ids(bs) : bs[i].is_active /\ bs[i].tension >= REVISION_THRESHOLD}) :
        \A i, j \in DOMAIN order : i < j => bs[order[i]].tension >= bs[order[j]].tension}

\* variant: one of the two conditions is enough
EagerEither(urgent, d) == urgent # <<>> \/ Exceeds(d, 60)

\* if (urgent.length && dissatisfaction > 0.6)
EagerCondition(urgent, d) == urgent # <<>> /\ Exceeds(d, 60)

\* const urgent = await getBeliefsAboveThreshold(); then, when the condition
\* holds, reviseAllTriggered(urgent) is called and awaited under withTimeout
TurnUrgent ==
    /\ turn.pc = "urgent"
    /\ \E order \in getBeliefsAboveThreshold(beliefs) :
          LET urgent == [i \in DOMAIN order |-> beliefs[order[i]]]
          IN IF EagerCondition(urgent, turn.dissatisfaction)
             THEN /\ turn' = [turn EXCEPT !.pc = "preRevise", !.urgent = urgent, !.eager = TRUE]
                  /\ job' = [job EXCEPT ![EagerWorker] =
                                [IdleJob EXCEPT !.pc = "reviseAll", !.triggered = urgent]]
             ELSE /\ turn' = [turn EXCEPT !.pc = "respond", !.urgent = urgent]
                  /\ UNCHANGED job
    /\ UNCHANGED <<storeVars, stack, hist, called, lockVars, connectLog, reply>>

\* reviseAllTriggered(urgent) has settled: its results become preRevisions and
\* activeBeliefs and dissatisfaction are read again, or its exception is
\* caught and logged
TurnPreSettled ==
    /\ turn.pc = "preRevise"
    /\ job[EagerWorker].pc \in {"done", "threw"}
    /\ LET d == computeDissatisfaction(beliefs, connections)
       IN turn' = IF job[EagerWorker].pc = "done" /\ ~DivisionByZero(d)
                  THEN [turn EXCEPT !.pc = "respond", !.dissatisfaction = d,
                                    !.activeBeliefs = getActiveBeliefs(beliefs),
                                    !.preRevisions = job[EagerWorker].results]
                  ELSE IF job[EagerWorker].pc = "done"
                  THEN [turn EXCEPT !.pc = "respond",
                                    !.activeBeliefs = getActiveBeliefs(beliefs),
                                    !.preRevisions = job[EagerWorker].results]
                  ELSE [turn EXCEPT !.pc = "respond"]
    /\ UNCHANGED <<storeVars, job, stack, hist, called, lockVars, connectLog, reply>>

\* the timer of withTimeout fires first: the rejection is caught and logged,
\* and reviseAllTriggered goes on by itself
TurnPreTimeout ==
    /\ turn.pc = "preRevise"
    /\ job[EagerWorker].pc \notin {"done", "threw"}
    /\ turn' = [turn EXCEPT !.pc = "respond", !.timedOut = TRUE]
    /\ UNCHANGED <<storeVars, job, stack, hist, called, lockVars, connectLog, reply>>

\* runAgenticLoop: the response exists from here on
TurnRespond ==
    /\ turn.pc = "respond"
    /\ turn' = [turn EXCEPT !.pc = "evidence"]
    /\ UNCHANGED <<storeVars, job, stack, hist, called, lockVars, connectLog, reply>>

\* extractEvidence (an empty list when it fails or takes too long), the INSERT
\* into interactions, and setImmediate(async () => { accumulate(evidence, ...) ... })
TurnSchedule(EvidenceLists) ==
    /\ turn.pc = "evidence"
    /\ job[DeferredWorker] = IdleJob
    /\ \E ev \in EvidenceLists :
          job' = [job EXCEPT ![DeferredWorker] =
                    [IdleJob EXCEPT !.pc = "accumulate", !.ev = ev]]
    /\ turn' = [turn EXCEPT !.pc = "final"]
    /\ UNCHANGED <<storeVars, stack, hist, called, lockVars, connectLog, reply>>

\* variant: the turn returns only when the work it deferred is over
ReturnAfterWork == job[DeferredWorker].pc \in {"done", "threw"}

\* nothing of the deferred work is awaited between setImmediate and return
ReturnReady == TRUE

\* const finalDissatisfaction = await computeDissatisfaction(); return { ... }
TurnReturn ==
    /\ turn.pc = "final"
    /\ ReturnReady
    /\ LET d == computeDissatisfaction(beliefs, connections)
       IN turn' = IF DivisionByZero(d) THEN [turn EXCEPT !.pc = "failed"]
                  ELSE [turn EXCEPT !.pc = "returned", !.returned = d]
    /\ UNCHANGED <<storeVars, job, stack, hist, called, lockVars, connectLog, reply>>

\* The stores a turn can start from: the seeds after earlier turns have
\* accumulated tension on them (dissatisfaction 0.56 with no belief at the
\* threshold, 0.63 with one, 0.59 with one, 0.64 with none).
TurnTensions == {<<60, 60, 45>>, <<75, 60, 45>>, <<60, 75, 45>>, <<66, 66, 60>>}

TurnInit ==
    /\ \E t \in TurnTensions :
          beliefs = [SeedTable(Len(SeedRows)) EXCEPT ![1].tension = t[1], ![2].tension = t[2],
                                                     ![3].tension = t[3]]
    /\ connections = SeedConnections
    /\ hist = [i \in Ids(beliefs) |-> NewHist(beliefs[i].tension)]
    /\ ledger = <<>>
    /\ revisions = <<>>
    /\ job = [w \in Workers |-> IdleJob]
    /\ stack = [w \in Workers |-> <<>>]
    /\ called = [w \in Workers |-> "none"]
    /\ interactions = <<>>
    /\ sessionLocks = [s \in Sessions |-> [of |-> 0, promise |-> 0]]
    /\ userRequestActive = FALSE
    /\ promiseCount = 0
    /\ turn = NoTurn
    /\ connectLog = <<>>
    /\ reply = NoReply

TurnEvidence == {<<>>, <<BatchItem(2)>>}

TurnResults == {ResultOfKind("empty_object"), ResultOfKind("null")}

TurnNext ==
    \/ TurnBegin
    \/ TurnUrgent
    \/ TurnPreSettled
    \/ TurnPreTimeout
    \/ TurnRespond
    \/ TurnSchedule(TurnEvidence)
    \/ TurnReturn
    \/ Accumulate(DeferredWorker)
    \/ \E w \in {EagerWorker, DeferredWorker} :
          \/ ReviseAllTriggered(w)
          \/ ReviseEnter(w)
          \/ ReviseDiscover(w, 0)
          \/ ReviseCallRevision(w, TurnResults)
          \/ ReviseCreate(w)
          \/ ReviseSupersede(w)
          \/ ReviseTransfer(w)
          \/ ReviseLog(w)
          \/ ReviseRescan(w)
          \/ ReviseReturn(w)

TurnSpec == TurnInit /\ [][TurnNext]_vars

\* the response of the turn has not been generated yet
BeforeResponse(t) == t.pc \in {"none", "urgent", "preRevise", "respond"}

\* no revision has been started
NoRevision ==
    /\ \A w \in Workers : job[w] = IdleJob /\ stack[w] = <<>>
    /\ revisions = <<>>

\* C11: the turn calls reviseAllTriggered and waits for it before the response
\* exactly when the dissatisfaction over the store at the start of the turn is
\* above 0.6 and some active belief has tension >= REVISION_THRESHOLD; in every
\* other case no revision has run when the response is generated
EagerIffDissatisfiedAndUrgent ==
    [][/\ (turn.pc = "urgent" /\ turn'.pc # "urgent") =>
            /\ turn'.eager <=>
                  /\ WeightedTension > 60 * Weight
                  /\ \E i \in ActiveIds : beliefs[i].tension >= REVISION_THRESHOLD
            /\ turn'.eager => /\ turn'.pc = "preRevise"
                              /\ job'[EagerWorker].pc = "reviseAll"
                              /\ \A i \in ActiveIds :
                                    beliefs[i].tension >= REVISION_THRESHOLD =>
                                        \E k \in DOMAIN job'[EagerWorker].triggered :
                                            job'[EagerWorker].triggered[k].id = i
       /\ (turn.pc = "preRevise" /\ turn'.pc # "preRevise") =>
            job[EagerWorker].pc \in {"done", "threw"} \/ turn'.timedOut
       /\ (BeforeResponse(turn') /\ ~turn'.eager) => NoRevision'
       /\ (turn.pc = "respond" /\ turn'.pc = "evidence" /\ ~turn.eager) => NoRevision]_vars

\* the dissatisfaction was above 0.6 with a belief at the threshold: the
\* response is generated after the pre-revision has revised that belief
RespondedAfterRevision ==
    /\ turn.pc = "evidence"
    /\ turn.eager /\ ~turn.timedOut
    /\ turn.preRevisions = <<"revised">>
    /\ Len(revisions) = 1

\* C12: the work the turn defers starts only after the response exists, the
\* turn can return whatever the state of that work is, and an exception of
\* that work leaves the turn as it is
DeferredDetached ==
    /\ job[DeferredWorker] # IdleJob => turn.pc \in {"final", "returned"}
    /\ turn.pc = "final" => ENABLED TurnReturn
    /\ job[DeferredWorker].pc = "threw" => turn.pc \in {"final", "returned"}

\* the turn has returned while a revision caused by its evidence is running
ReturnedWhilePending ==
    /\ turn.pc = "returned"
    /\ job[DeferredWorker].pc = "reviseAll"
    /\ stack[DeferredWorker] # <<>>


\* ----------------------------------- the tension and reinforce endpoints
\* queryOne: result.rows[0] ?? null, or the exception of the query
TensionOutcome(bs, id, delta) ==
    IF ~Updatable(bs, id) THEN "null"
    ELSE IF TensionCheckFails(bs, id, delta) THEN "throws"
    ELSE "row"

ReinforceOutcome(bs, id) == IF Updatable(bs, id) THEN "row" ELSE "null"

\* POST /api/beliefs/:id/tension: addTension(id, delta)
TensionCall(id, delta) ==
    /\ reply.n < MaxStoreCalls
    /\ beliefs' = addTension(beliefs, id, delta)
    /\ hist' = HistAfterTension(hist, beliefs, id, delta, 0)
    /\ reply' = [op |-> "addTension", n |-> reply.n + 1, id |-> id, delta |-> delta,
                 outcome |-> TensionOutcome(beliefs, id, delta)]
    /\ UNCHANGED <<connections, ledger, revisions, job, stack, called, lockVars, turn,
                   connectLog>>

\* POST /api/beliefs/:id/reinforce: reinforceBelief(id)
ReinforceCall(id) ==
    /\ reply.n < MaxStoreCalls
    /\ beliefs' = reinforceBelief(beliefs, id)
    /\ hist' = HistAfterReinforce(hist, beliefs, id)
    /\ reply' = [op |-> "reinforceBelief", n |-> reply.n + 1, id |-> id, delta |-> 0,
                 outcome |-> ReinforceOutcome(beliefs, id)]
    /\ UNCHANGED <<connections, ledger, revisions, job, stack, called, lockVars, turn,
                   connectLog>>

\* the ids of the calls: the second seed (superseded in some stores), the
\* third seed, and an id no row has
CallIds == {2, 3, 9}
CallDeltas == {-80, 10, ONE}

StoreCallNext ==
    \E id \in CallIds :
        \/ \E delta \in CallDeltas : TensionCall(id, delta)
        \/ ReinforceCall(id)

StoreCallSpec == AccInit /\ [][StoreCallNext]_vars

\* the call just made named a row that is missing or not active
CalledAbsent ==
    /\ reply'.n = reply.n + 1
    /\ reply'.op \in {"addTension", "reinforceBelief"}
    /\ reply'.id \notin Ids(beliefs) \/ ~beliefs[reply'.id].is_active

RangeStrengths == {-500, 300, NaN}

RangeEvidenceItems ==
    [belief_id : {1, 3}, stance : {"contradicting"}, strength : RangeStrengths]
    \cup [belief_id : {3}, stance : {"reinforcing"}, strength : {ONE}]

\* What parseFloat makes of result.confidence and of ci.new_tension_delta
\* when the collaborator's numbers are not the ones the prompt asks for.
RangeConfidences == {-50, 150, NaN}
RangeDeltas == {-ONE, 200, NaN}

RangeResults ==
    {ObjectResult(Missing, c, casc, <<>>) :
        c \in RangeConfidences,
        casc \in SeqsUpTo([belief : {<<"helpful">>}, new_tension_delta : RangeDeltas],
                          MaxCascade)}

RangeEvidence == SeqsUpTo(RangeEvidenceItems, MaxStoreEvidence)

RangeNext ==
    \/ StartJob(1, RangeEvidence)
    \/ Accumulate(1)
    \/ ReviseStep(1, RangeResults, MaxDiscovered)

RangeSpec == Init /\ [][RangeNext]_vars

\* C22: in every reachable state every belief has 0 <= confidence <= 1 and
\* 0 <= tension <= 1, whatever strengths accumulate is given and whatever
\* tension deltas and confidences the revision collaborator returns.
ColumnsInRange ==
    \A i \in Ids(beliefs) :
        /\ beliefs[i].confidence # NaN /\ beliefs[i].tension # NaN
        /\ 0 <= beliefs[i].confidence /\ beliefs[i].confidence <= ONE
        /\ 0 <= beliefs[i].tension /\ beliefs[i].tension <= ONE

\* A strength of 3 took the first belief to tension 1, its successor was
\* created from a confidence of 1.5, and a cascade delta of 2 took the third
\* belief to tension 1.
OutOfRangeInputsApplied ==
    /\ Len(beliefs) > 3
    /\ hist[1].applied = EvidenceDelta([strength |-> 300])
    /\ beliefs[1].tension = ONE
    /\ beliefs[4].confidence = ONE
    /\ hist[3].applied = 200
    /\ beliefs[3].tension = ONE
\* ------------------------------------------------------ evidence extraction
\* The JSON numbers that occur in the collaborator's output, in hundredths;
\* every other token is a JSON string, or "undefined" for a field left out.
NumberValue == ("0" :> 0) @@ ("0.5" :> 50) @@ ("1" :> ONE) @@ ("7" :> 7 * ONE)

\* typeof x === "number"
IsNumber(tok) == tok \in DOMAIN NumberValue

\* parseFloat(x ?? "0.5")
parseFloat(tok) ==
    IF tok = "undefined" THEN 50
    ELSE IF IsNumber(tok) THEN NumberValue[tok]
    ELSE NaN

\* typeof beliefIndex === "number" && beliefIndex >= 0 &&
\* beliefIndex < activeBeliefs.length
IndexInRange(item, active) ==
    /\ IsNumber(item.belief_index)
    /\ NumberValue[item.belief_index] >= 0
    /\ NumberValue[item.belief_index] < Len(active) * ONE

\* activeBeliefs[beliefIndex].id when beliefIndex is not whole: a TypeError
IndexThrows(item, active) ==
    item.object /\ IndexInRange(item, active) /\ NumberValue[item.belief_index] % ONE # 0

Stances == {"reinforcing", "contradicting", "neutral"}

\* result.push({ stance, belief_id: beliefId, strength: clamp(parseFloat(...)) })
ExtractItem(item, active) ==
    [belief_id |-> IF IndexInRange(item, active)
                   THEN active[NumberValue[item.belief_index] \div ONE + 1].id
                   ELSE NoBelief,
     stance |-> IF item.stance \in Stances THEN item.stance ELSE "neutral",
     strength |-> ClampUnit(parseFloat(item.strength))]

\* for (const item of raw) { if (typeof item !== "object" || !item) continue; ... }
RECURSIVE ExtractItems(_, _)
ExtractItems(items, active) ==
    IF items = <<>> THEN <<>>
    ELSE IF ~Head(items).object THEN ExtractItems(Tail(items), active)
    ELSE <<ExtractItem(Head(items), active)>> \o ExtractItems(Tail(items), active)

\* extractEvidence(userMessage, response, activeBeliefs): whether it rejects,
\* and the list it resolves with. kind "throw": callClaude fails; "not_json":
\* JSON.parse throws; "object": JSON that is not an array.
extractEvidence(out, active) ==
    IF active = <<>> \/ out.kind \in {"throw", "not_json", "object"}
    THEN [threw |-> FALSE, evidence |-> <<>>]
    ELSE IF \E i \in DOMAIN out.items : IndexThrows(out.items[i], active)
    THEN [threw |-> TRUE, evidence |-> <<>>]
    ELSE [threw |-> FALSE, evidence |-> ExtractItems(out.items, active)]

\* the timer of withTimeout(extractEvidence(...), 30_000, "evidence") fired first
TimedOut == [kind |-> "timeout", items |-> <<>>]

\* let evidence = []; try { evidence = await withTimeout(extractEvidence(...)) }
\* catch { ... }; the INSERT into interactions; setImmediate(async () => {
\* accumulate(evidence, ...) ... })
TurnExtract(Outputs) ==
    /\ turn.pc = "evidence"
    /\ job[DeferredWorker] = IdleJob
    /\ \E out \in Outputs \cup {TimedOut} :
          LET r == extractEvidence(out, turn.activeBeliefs)
              evidence == IF out = TimedOut \/ r.threw THEN <<>> ELSE r.evidence
          IN /\ job' = [job EXCEPT ![DeferredWorker] =
                          [IdleJob EXCEPT !.pc = "accumulate", !.ev = evidence]]
             /\ turn' = [turn EXCEPT !.pc = "final", !.extraction = out]
    /\ UNCHANGED <<storeVars, stack, hist, called, lockVars, connectLog, reply>>

\* The items of the collaborator's array: objects whose fields are the ones
\* the prompt asks for or are not, and a value that is not an object.
RawItems ==
    [object : {TRUE}, belief_index : {"0", "7", "0.5"},
     stance : {"contradicting", "doubtful"}, strength : {"1", "high"}]
    \cup {[object |-> FALSE, belief_index |-> "undefined", stance |-> "undefined",
           strength |-> "undefined"]}

ExtractOutputs ==
    {[kind |-> k, items |-> <<>>] : k \in {"throw", "not_json", "object"}}
    \cup {[kind |-> "array", items |-> items] : items \in SeqsUpTo(RawItems, MaxRawItems)}

\* A turn that starts from the seeds with no belief at the threshold, while
\* the revision collaborator is down.
ExtractNext ==
    \/ TurnBegin
    \/ TurnUrgent
    \/ TurnRespond
    \/ TurnExtract(ExtractOutputs)
    \/ TurnReturn
    \/ Accumulate(DeferredWorker)
    \/ ReviseAllTriggered(DeferredWorker)
    \/ ReviseEnter(DeferredWorker)
    \/ ReviseDiscover(DeferredWorker, 0)
    \/ ReviseCallRevision(DeferredWorker, {ResultOfKind("throw")})

ExtractSpec == Init /\ [][ExtractNext]_vars

\* An item as the extraction prompt asks for it: an object with a whole index
\* of an active belief, one of the three stances and a strength in [0,1].
WellFormed(item, active) ==
    /\ item.object
    /\ IndexInRange(item, active) /\ ~IndexThrows(item, active)
    /\ item.stance \in Stances
    /\ IsNumber(item.strength) /\ NumberValue[item.strength] <= ONE

\* The extraction failed, timed out or gave malformed output.
Degraded(out, active) ==
    \/ out.kind \in {"throw", "timeout", "not_json", "object"}
    \/ out.kind = "array" /\ \E i \in DOMAIN out.items : ~WellFormed(out.items[i], active)

\* C23: when the evidence extraction of a turn fails, times out or returns
\* malformed output, the evidence list of the turn is empty, accumulate
\* changes no belief and logs no contradiction, no revision is started by the
\* turn, and the turn can still return.
DegradedExtractionIsEmpty ==
    Degraded(turn.extraction, turn.activeBeliefs) =>
        /\ job[DeferredWorker].ev = <<>>
        /\ ledger = <<>>
        /\ \A i \in Ids(beliefs) : hist[i].applied = 0 /\ hist[i].reinforced = 0
        /\ job[DeferredWorker].triggered = <<>>
        /\ stack[DeferredWorker] = <<>>
        /\ turn.pc = "final" => ENABLED TurnReturn
\* ------------------------------------------------------- abandoned calls
\* A step of the reviseAllTriggered call that the turn's withTimeout gave up on.
AbandonedStep ==
    /\ turn.timedOut
    /\ stack'[EagerWorker] # stack[EagerWorker] \/ job'[EagerWorker] # job[EagerWorker]

\* C24: once the timeout of the pre-revision has fired, the call it abandoned
\* changes no belief, no connection and no revision record.
AbandonedWorkWritesNothing == [][AbandonedStep => UNCHANGED storeVars]_vars
\* ------------------------------------------------------ connected beliefs
\* CASE WHEN belief_a = x THEN belief_b ELSE belief_a END
OtherEnd(k, x) == IF k[1] = x THEN k[2] ELSE k[1]

\* belief_a = x OR belief_b = x
Touches(k, x) == k[1] = x \/ k[2] = x

\* hops = 1: SELECT b.* FROM beliefs b JOIN belief_connections c ON
\* (c.belief_b = b.id OR c.belief_a = b.id) WHERE (c.belief_a = $1 OR
\* c.belief_b = $1) AND b.id != $1 AND b.is_active = true: how many rows of
\* the join carry each belief.
JoinRows(bs, cs, id) ==
    [b \in Ids(bs) |->
        IF b # id /\ bs[b].is_active
        THEN Cardinality({k \in DOMAIN cs : Touches(k, id) /\ Touches(k, b)})
        ELSE 0]

\* WITH RECURSIVE connected AS (... UNION ... WHERE c.depth < $2): the working
\* table of (bid, depth) rows, grown until an iteration adds no row.
RECURSIVE Connected(_, _, _, _)
Connected(T, cs, id, hops) ==
    LET base == {<<OtherEnd(k, id), 1>> : k \in {k \in DOMAIN cs : Touches(k, id)}}
        step == UNION {{<<OtherEnd(k, r[1]), r[2] + 1>> :
                            k \in {k \in DOMAIN cs : Touches(k, r[1])}} :
                       r \in {r \in T : r[2] < hops}}
        next == T \cup base \cup step
    IN IF next = T THEN T ELSE Connected(next, cs, id, hops)

\* SELECT DISTINCT b.* FROM beliefs b JOIN connected c ON b.id = c.bid WHERE
\* b.id != $1 AND b.is_active = true
ClosureRows(bs, cs, id, hops) ==
    LET T == Connected({}, cs, id, hops)
    IN [b \in Ids(bs) |->
           IF b # id /\ bs[b].is_active /\ \E r \in T : r[1] = b THEN 1 ELSE 0]

\* getConnectedBeliefs(beliefId, hops): the number of rows returned for each
\* belief (the rows come in no fixed order).
getConnectedBeliefs(bs, cs, id, hops) ==
    IF hops = 1 THEN JoinRows(bs, cs, id) ELSE ClosureRows(bs, cs, id, hops)

\* GET /api/beliefs/:id calls it with hops = 2, reviseBelief with hops = 1.
ConnectedCall(id, hops) ==
    /\ reply.n < MaxStoreCalls
    /\ reply' = [op |-> "getConnectedBeliefs", n |-> reply.n + 1, id |-> id, hops |-> hops,
                 rows |-> getConnectedBeliefs(beliefs, connections, id, hops)]
    /\ UNCHANGED <<storeVars, job, stack, hist, called, lockVars, turn, connectLog>>

\* Four beliefs, the third of which may have been superseded by the fourth,
\* with any of these connections among them: both directions of one pair, a
\* cycle, a chain and a connection of a belief with itself.
GraphPairs == {<<1, 2>>, <<2, 1>>, <<2, 3>>, <<3, 1>>, <<3, 4>>, <<1, 1>>}

GraphHops == {1, 2, 3}

GraphInit ==
    /\ \E superseded \in BOOLEAN :
          beliefs = DissTable(<<10, 10, 10, 10>>, <<50, 50, 50, 50>>, superseded)
    /\ \E pairs \in SUBSET GraphPairs : connections = ConnectAll(EmptyConnections, pairs)
    /\ hist = [i \in Ids(beliefs) |-> NewHist(beliefs[i].tension)]
    /\ ledger = <<>>
    /\ revisions = <<>>
    /\ job = [w \in Workers |-> IdleJob]
    /\ stack = [w \in Workers |-> <<>>]
    /\ called = [w \in Workers |-> "none"]
    /\ interactions = <<>>
    /\ sessionLocks = [s \in Sessions |-> [of |-> 0, promise |-> 0]]
    /\ userRequestActive = FALSE
    /\ promiseCount = 0
    /\ turn = NoTurn
    /\ connectLog = <<>>
    /\ reply = NoReply

GraphNext == \E id \in {1, 2} : \E hops \in GraphHops : ConnectedCall(id, hops)

GraphSpec == GraphInit /\ [][GraphNext]_vars

\* x and y are the two ends of a connection
Adjacent(cs, x, y) == <<x, y>> \in DOMAIN cs \/ <<y, x>> \in DOMAIN cs

\* The beliefs that a walk of at least one and at most `hops` connections
\* leads to from id.
Within(bs, cs, id, hops) ==
    {b \in Ids(bs) :
        \E n \in 1..hops : \E p \in [1..(n + 1) -> Ids(bs)] :
            /\ p[1] = id /\ p[n + 1] = b
            /\ \A i \in 1..n : Adjacent(cs, p[i], p[i + 1])}

\* C25: getConnectedBeliefs(id, hops) returns each belief at most once, never
\* id itself and never an inactive belief; the beliefs it returns are the
\* active ones that share a connection with id when hops = 1, and the active
\* ones within `hops` connections of id when hops > 1.
ConnectedIsDistinctClosure ==
    reply.op = "getConnectedBeliefs" =>
        /\ \A b \in Ids(beliefs) : reply.rows[b] <= 1
        /\ reply.rows[reply.id] = 0
        /\ \A b \in Ids(beliefs) : ~beliefs[b].is_active => reply.rows[b] = 0
        /\ {b \in Ids(beliefs) : reply.rows[b] > 0} =
              {b \in Within(beliefs, connections, reply.id, reply.hops) :
                  b # reply.id /\ beliefs[b].is_active}
\* ------------------------------------------------------- revision records
\* No reviseBelief call is running.
Quiescent == \A w \in Workers : stack[w] = <<>>

\* The records that name b as the old belief.
RecordsOf(b) == {k \in DOMAIN revisions : revisions[k].old_belief_id = b}

\* C26: there are as many revision records as reviseBelief calls that
\* returned status revised: once no call is running, each belief is the old
\* belief of as many records as calls on it returned revised, and each record
\* names the successor the call created.
RecordsMatchRevisedReturns ==
    Quiescent =>
        /\ \A b \in Ids(beliefs) : Cardinality(RecordsOf(b)) = hist[b].revisedReturns
        /\ \A k \in DOMAIN revisions :
              revisions[k].new_belief_id \in Range(hist[revisions[k].old_belief_id].successors)
\* The record that the call of frame f inserted.
RecordOfCall(f) ==
    {k \in DOMAIN revisions :
        revisions[k].old_belief_id = f.belief.id /\ revisions[k].new_belief_id = f.newId}

\* C27: when a reviseBelief call is about to return revised, the record it
\* persisted lists in cascaded_beliefs the beliefs on which the call invoked
\* a nested reviseBelief.
RecordListsCascaded ==
    \A w \in Workers : \A f \in Frames(w) :
        f.pc = "return" =>
            \E k \in RecordOfCall(f) : revisions[k].cascaded_beliefs = f.cascadedIds
\* ------------------------------------------- the re-scan of connected beliefs
\* The tension endpoint is called for a connected belief while the revision of
\* a triggered belief waits for the reconstruction collaborator.
ConcurrentTension(id, delta) ==
    /\ \E w \in Workers : Len(stack[w]) = 1 /\ Top(w).pc = "callRevision"
    /\ TensionCall(id, delta)

RescanDeltas == {10, 30}

\* One turn whose evidence takes the first seed over the threshold; the
\* collaborator answers every revision with an object that names no field, or
\* fails.
\* The revision either fails or gives an object without fields.
RescanResults == {ResultOfKind("empty_object"), ResultOfKind("throw")}

RescanNext ==
    \/ StartJob(1, {<<BatchItem(1)>>})
    \/ Accumulate(1)
    \/ ReviseAllTriggered(1)
    \/ ReviseEnter(1)
    \/ ReviseDiscover(1, 0)
    \/ ReviseCallRevision(1, RescanResults)
    \/ ReviseCreate(1)
    \/ ReviseSupersede(1)
    \/ ReviseTransfer(1)
    \/ ReviseLog(1)
    \/ ReviseRescan(1)
    \/ ReviseReturn(1)
    \/ \E id \in {2, 3} : \E delta \in RescanDeltas : ConcurrentTension(id, delta)

RescanSpec == Init /\ [][RescanNext]_vars

\* C28: when the revision of a belief comes to its end, reviseBelief has been
\* invoked on every connected belief (stored or discovered) that is active
\* with tension >= REVISION_THRESHOLD in the store, whatever tension it had
\* when the connected beliefs were loaded.
ConnectedAtThresholdRevised ==
    \A w \in Workers : \A f \in Frames(w) :
        f.pc = "return" =>
            \A i \in DOMAIN f.allConnected :
                Revisable(beliefs, f.allConnected[i].id) =>
                    f.allConnected[i].id \in Range(f.cascadedIds)
\* ------------------------------------------- connections of the successor
\* The step of worker w that transfers the connections to the successor and
\* writes the suggested ones.
Transferring(w) ==
    /\ stack[w] # <<>>
    /\ Top(w).pc = "transfer"
    /\ stack'[w] # stack[w]

\* The connections between x and y, in either direction.
Between(cs, x, y) == {k \in DOMAIN cs : k = <<x, y>> \/ k = <<y, x>>}

\* C29: after the revision has written its connections, for every entry of
\* new_connections that resolves to a belief and carries a valid relation there
\* is a connection between the successor and that belief with the relation of
\* the entry, also when that belief was connected to the original.
SuggestedRelationWritten ==
    [][\A w \in Workers :
          Transferring(w) =>
              LET f == Top(w)
                  ncs == f.result.new_connections
              IN \A i \in DOMAIN ncs :
                    LET m == FirstMatch(f.allBeliefs, TextOrEmpty(ncs[i].to_belief))
                    IN (m # 0 /\ ncs[i].relation \in ValidRelations) =>
                          \E k \in Between(connections', f.newId, f.allBeliefs[m].id) :
                              connections'[k].relation = ncs[i].relation]_vars
\* C30: the step that transfers the connections gives every belief that was
\* connected to the original (the stored active neighbours and the active
\* beliefs of the discovered connections) a new connection from the
\* successor, with relation supports and strength 0.5 whatever the relation
\* and strength of the original's connection were.
TransferredAsSupports ==
    [][\A w \in Workers :
          Transferring(w) =>
              LET f == Top(w)
              IN \A c \in Range(f.storedConnected) \cup Range(f.newlyConnected) :
                    LET k == <<f.newId, c.id>>
                    IN /\ k \notin DOMAIN connections
                       /\ k \in DOMAIN connections'
                       /\ connections'[k].relation = "supports"
                       /\ connections'[k].strength = 50]_vars

\* The second seed was revised after a connection to the third seed was
\* discovered for it (tension_shares, 0.8): its successor is connected to the
\* first seed (stored at 0.6) and to the third, both as supports at 0.5.
TransferredStoredAndDiscovered ==
    /\ stack[1] # <<>>
    /\ Top(1).pc = "log"
    /\ Top(1).belief.id = 2 /\ Top(1).newId = 4
    /\ <<2, 3>> \in DOMAIN connections
    /\ connections[<<2, 3>>].relation = "tension_shares" /\ connections[<<2, 3>>].strength = 80
    /\ connections[<<2, 1>>].strength = 60
    /\ {<<4, 1>>, <<4, 3>>} \subseteq DOMAIN connections
    /\ \A k \in {<<4, 1>>, <<4, 3>>} :
          connections[k].relation = "supports" /\ connections[k].strength = 50

\* -------------------------------------------------- the successor of a revision
\* The call f of reviseBelief has superseded its belief and not yet returned.
Superseded(f) ==
    f.pc \in {"transfer", "log", "cascade", "cascadeWait", "rescan", "rescanWait", "return"}

\* The step in which worker w creates the successor.
Creating(w) ==
    /\ stack[w] # <<>>
    /\ Top(w).pc = "create"
    /\ Len(beliefs') = Len(beliefs) + 1

\* C31: the successor a revision creates is a new row that is active, with
\* tension 0 and superseded_by null, with the domain and importance of the
\* original and the confidence of the result brought into [0,1]; from the
\* supersession to the return of the call the original is inactive and its
\* superseded_by is the successor's id.
SuccessorAsSpecified ==
    [][/\ \A w \in Workers :
             Creating(w) =>
                 LET f == Top(w)
                     new == beliefs'[Len(beliefs) + 1]
                     c == f.result.confidence
                 IN /\ new.is_active /\ new.tension = 0 /\ new.superseded_by = NoBelief
                    /\ new.domain = beliefs[f.belief.id].domain
                    /\ new.importance = beliefs[f.belief.id].importance
                    /\ new.confidence = (IF c < 0 THEN 0 ELSE IF c > ONE THEN ONE ELSE c)
       /\ \A w \in Workers : \A i \in DOMAIN stack'[w] :
             LET f == stack'[w][i]
             IN Superseded(f) =>
                    /\ ~beliefs'[f.belief.id].is_active
                    /\ beliefs'[f.belief.id].superseded_by = f.newId]_vars

\* The first seed was revised with a confidence of 1.5 in the result and the
\* third with -0.5: the successors are stored at 1 and at 0.
ClampedSuccessors ==
    /\ \E w \in Workers : \E f \in Frames(w) :
          /\ f.pc = "return" /\ f.result.confidence = 150
          /\ beliefs[f.newId].confidence = ONE
          /\ beliefs[f.newId].importance = beliefs[f.belief.id].importance
          /\ beliefs[f.belief.id].superseded_by = f.newId
    /\ \E i \in Ids(beliefs) :
          beliefs[i].superseded_by # NoBelief /\ beliefs[beliefs[i].superseded_by].confidence = 0

\* ------------------------------------------- the discovered connections stay
\* The connection that the write-back of the call f stores for the item d.
DiscoveredKey(f, d) == <<f.belief.id, d.belief_id>>

\* Every discovered connection of the call f is stored in cs with method
\* llm_revision.
DiscoveredStored(cs, f) ==
    \A i \in DOMAIN f.discovered :
        /\ DiscoveredKey(f, f.discovered[i]) \in DOMAIN cs
        /\ cs[DiscoveredKey(f, f.discovered[i])].discovery_method = "llm_revision"

CollaboratorFailed(w) == called[w] \in {"throw", "null"}

\* C33: a failure of the reconstruction collaborator never makes
\* reviseAllTriggered reject (the deferred work's catch is never reached
\* because of it): the failure becomes a result with status error and the
\* loop goes on with the remaining beliefs of the batch.
FailureBecomesErrorResult ==
    \A w \in Workers : CollaboratorFailed(w) => job[w].pc # "threw"

\* --------------------------------------------- one connection per pair of beliefs
\* C34: whatever calls of connectBeliefs were made (seeding, discovery
\* write-back, transfer, suggested connections), two beliefs are joined by at
\* most one connection whichever way round the two ids were passed, so that a
\* neighbour is one row of getConnectedBeliefs(id, 1) and counts once in the
\* density of computeDissatisfaction.
OneConnectionPerPair ==
    \A k \in DOMAIN connections :
        k[1] # k[2] => <<k[2], k[1]>> \notin DOMAIN connections

\* ------------------------------------------------ the ledger of contradictions
\* C35: accumulate appends an entry to the ledger only for a tension delta
\* that was applied: the belief the entry names was a row addTension's UPDATE
\* touched (an active belief), never one for which addTension returned null.
LoggedOnlyWhenApplied ==
    [][Len(ledger') > Len(ledger) => Updatable(beliefs, Last(ledger').belief_id)]_vars

\* ------------------------------------------------ the user request priority
\* A call of processInteraction for a session other than autonomous has
\* started and its promise is not settled yet.
UserRequestInFlight ==
    \E n \in DOMAIN interactions :
        /\ interactions[n].session # "autonomous"
        /\ interactions[n].state \in {"waiting", "running"}

\* C36: isUserRequestActive() is true whenever at least one call of
\* processInteraction for a non-autonomous session is in flight, also when
\* several user requests overlap and one of them has finished.
ActiveWhileUserRequestInFlight == UserRequestInFlight => userRequestActive

\* ------------------------------------------------- what gets revised at all
\* In this step worker w starts a call of reviseBelief (from
\* reviseAllTriggered, a cascade_updates entry or the re-scan).
Starting(w) == Len(stack'[w]) > Len(stack[w])

\* C37: a call of reviseBelief is started only on a belief that is, at that
\* moment, active in the store with tension at or above REVISION_THRESHOLD,
\* and a belief is superseded only by the call that was started on it: no
\* belief below the threshold when its call began is ever superseded and no
\* revision begins on an inactive belief.
RevisedOnlyWhenTriggered ==
    [][/\ \A w \in Workers :
             Starting(w) =>
                 LET f == stack'[w][Len(stack'[w])]
                 IN /\ f.pc = "enter"
                    /\ beliefs'[f.belief.id] = f.belief
                    /\ f.belief.is_active
                    /\ f.belief.tension >= REVISION_THRESHOLD
       /\ \A i \in Ids(beliefs) :
             (beliefs[i].is_active /\ ~beliefs'[i].is_active) =>
                 \E w \in Workers :
                     /\ stack[w] # <<>>
                     /\ Top(w).pc = "supersede"
                     /\ Top(w).belief.id = i
                     /\ Top(w).belief.is_active
                     /\ Top(w).belief.tension >= REVISION_THRESHOLD]_vars

\* A belief that a cascade_updates entry of its neighbour's revision brought
\* to the threshold has been revised at depth 1 and is superseded.
SupersededByCascade ==
    \E w \in Workers : \E f \in Frames(w) :
        /\ f.depth = 1 /\ f.pc = "return"
        /\ f.belief.tension >= REVISION_THRESHOLD
        /\ hist[f.belief.id].t0 + hist[f.belief.id].applied >= REVISION_THRESHOLD
        /\ hist[f.belief.id].t0 < REVISION_THRESHOLD
        /\ ~beliefs[f.belief.id].is_active

\* ------------------------------------------ one batch that names a belief twice
\* The evidence of one turn contradicts the first or the second seed, once or
\* twice, at full strength; the revision collaborator fails, names no field,
\* or asks for one cascade update of a connected belief.
RepeatEvidence == SeqsUpTo({BatchItem(1), BatchItem(2)}, MaxRepeatEvidence)

RepeatResults ==
    {ResultOfKind("empty_object"), ResultOfKind("throw")}
    \cup {ObjectResult(Missing, 50, <<e>>, <<>>) :
            e \in [belief : {Missing, <<"context">>}, new_tension_delta : {10, ONE}]}

RepeatNext ==
    \/ StartJob(1, RepeatEvidence)
    \/ Accumulate(1)
    \/ ReviseAllTriggered(1)
    \/ ReviseEnter(1)
    \/ ReviseDiscover(1, 0)
    \/ ReviseCallRevision(1, RepeatResults)
    \/ ReviseCreate(1)
    \/ ReviseSupersede(1)
    \/ ReviseTransfer(1)
    \/ ReviseLog(1)
    \/ ReviseCascade(1)
    \/ ReviseRescan(1)
    \/ ReviseReturn(1)

RepeatSpec == Init /\ [][RepeatNext]_vars

\* C38: in the work of one reviseAllTriggered call and all the calls of
\* reviseBelief below it, with nothing else writing to the store,
\* supersedeBelief is issued at most once for every belief, also when the
\* batch names a belief twice or a belief is connected to several revised
\* beliefs.
SupersededAtMostOnce ==
    \A i \in Ids(beliefs) : Len(hist[i].successors) <= 1

\* Two items of the batch contradicted the first seed, both leaving it at or
\* above the threshold (0.75, then 0.90): reviseAllTriggered revised it once
\* and passed over its second entry.
NamedTwiceRevisedOnce ==
    /\ ledger = <<[belief_id |-> 1, tension_delta |-> 15], [belief_id |-> 1, tension_delta |-> 15]>>
    /\ job[1].pc = "done"
    /\ job[1].results = <<"revised">>
    /\ Len(hist[1].successors) = 1
    /\ ~beliefs[1].is_active

\* ------------------------------------------------------ the triggered output
\* C39: the beliefs accumulate has collected form a set: no belief is in
\* triggered twice, also when several contradicting items of the batch name a
\* belief that is at or above the threshold.
TriggeredIsASet ==
    \A w \in Workers :
        \A a, b \in DOMAIN job[w].triggered :
            job[w].triggered[a].id = job[w].triggered[b].id => a = b

\* ------------------------------------------- the range of the dissatisfaction
\* The least and the greatest tension among the active beliefs.
MinTension == CHOOSE t \in {beliefs[i].tension : i \in ActiveIds} :
                  \A i \in ActiveIds : t <= beliefs[i].tension

MaxTension == CHOOSE t \in {beliefs[i].tension : i \in ActiveIds} :
                  \A i \in ActiveIds : t >= beliefs[i].tension

\* C40: when at least one belief is active, computeDissatisfaction returns a
\* value d (the query does not fail) that lies between the least and the
\* greatest tension of the active beliefs, whatever their importances in
\* [0,1] (all of them 0 included) and whatever the connections.
DissatisfactionWithinTensions ==
    (turn.pc # "none" /\ ActiveIds # {}) =>
        /\ turn.pc = "urgent"
        /\ turn.dissatisfaction[2] > 0
        /\ MinTension * turn.dissatisfaction[2] <= turn.dissatisfaction[1]
        /\ turn.dissatisfaction[1] <= MaxTension * turn.dissatisfaction[2]
====
